---- MODULE Spec2Model ----
(***************************************************************************)
(* State-machine model of the chat-service real-time core:                 *)
(*   - service start-up (index.ts / app.ts initializeServices),            *)
(*   - the Event-Bus client (kafka-service.ts: connect, consumer,          *)
(*     per-message pause / timed resume, topic handlers),                  *)
(*   - the real-time gateway (socket-service.ts: connection registry,      *)
(*     room membership, send flow, Relay callbacks),                       *)
(*   - the Relay client (config/redis.ts: publish / subscribe).            *)
(* Time is counted in milliseconds; it advances in steps of at most TickMs *)
(* and never past a pending timer.                                         *)
(***************************************************************************)
EXTENDS Integers, Sequences, FiniteSets, TLC

\* ------------------------------------------------------------------ bounds
NumSockets == 2
NumPartitions == 2
MaxTimers == 2
MaxRelay == 2
MaxMsgs == 2
TickMs == 30000

\* ------------------------------------------------------- program constants
maxRetries == 10
BackoffBaseMs == 1000
BackoffCapMs == 30000
CooldownMs == 30000

\* ---------------------------------------------------------------- domains
Users == {"u1", "u2"}
Sockets == 1..NumSockets
Partitions == 0..(NumPartitions - 1)
RoomIds == {"global", "r1"}
NoId == "none"

\* the eight topics startConsumer subscribes to
Topics == {"MESSAGES", "MESSAGE_UPDATED", "MESSAGE_DELETED", "user.registered",
           "USER_CREATED", "ROOM_CREATED", "ROOM_UPDATED", "ROOM_DELETED"}
\* topics on which the modelled brokers carry traffic
FedTopics == {"MESSAGES", "user.registered"}

VARIABLES
  \* ---- process / start-up (index.ts, app.ts)
  alive,          \* the node process has not exited
  httpListening,  \* server.listen has been called
  initPc,         \* position of initializeServices
  ioAttached,     \* the socket.io Server is attached and listeners installed
  \* ---- KafkaService
  connectPc,      \* position of KafkaService.connect
  retryCount,     \* local retryCount of connect()
  attempts,       \* attempts started by the connect() call (observation)
  waitLeft,       \* ms left of the current backoff wait
  producer,       \* "null" or "client"
  consumer,       \* "null" or "client"
  isConnected,    \* KafkaService.isConnected
  consumerRunning,\* consumer.run has been called
  paused,         \* kafkajs paused topic-partitions
  timers,         \* pending resume timers, in creation order
  lastDispatch,   \* what the last step's eachMessage call did
  appliedIds,     \* message ids already applied once by handleNewMessage (observation)
  \* ---- store (prisma)
  storeMessages,  \* id -> row
  storeUsers,     \* id -> email
  storeRooms,     \* set of room ids
  nextId,         \* index of the next identifier the store assigns to a Message
  \* ---- SocketService and socket.io
  live,           \* connected sockets
  sockUser,       \* socket -> socket.userId
  connectedUsers, \* userId -> set of socket ids
  userSockets,    \* socket id -> userId
  rooms,          \* socket -> socket.io rooms it is in
  member,         \* socket -> room ids joined by join:room and not left (observation)
  \* ---- RedisClient
  subPc,          \* position of setupRedisSubscriptions
  subscribed,     \* channels the subscriber client is subscribed to
  relay,          \* publications on their way to the subscriber client
  \* ---- observations
  out,            \* last step: publish / produce / producer.send / emit calls, REST
                  \* response, request handled, handshake outcome, Relay callbacks run
  owed,           \* message:new deliveries announced to room members and not yet made
  reportedFailed, \* ids of persisted messages whose send was answered with an error (observation)
  \* ---- requests between two awaits
  pendingSends,   \* request slot -> position and locals of a send-flow call
  pendingDelete   \* position and locals of a RoomController.deleteRoom call

busVars == <<connectPc, retryCount, attempts, waitLeft, producer, consumer,
             isConnected, consumerRunning, paused, timers, lastDispatch,
             appliedIds>>
procVars == <<alive, httpListening, initPc, ioAttached>>
storeVars == <<storeMessages, storeUsers, storeRooms, nextId>>
registryVars == <<live, sockUser, connectedUsers, userSockets>>
roomVars == <<rooms, member>>
relayVars == <<subPc, subscribed, relay>>
gwState == <<registryVars, roomVars, relayVars, owed>>
gwVars == <<gwState, out>>
pendVars == <<pendingSends, pendingDelete>>
vars == <<procVars, busVars, storeVars, gwVars, pendVars, reportedFailed>>

\* ------------------------------------------------------------- helpers
Min(S) == CHOOSE x \in S : \A y \in S : x <= y

RECURSIVE Pow2(_)
Pow2(n) == IF n = 0 THEN 1 ELSE 2 * Pow2(n - 1)

NoDispatch == [kind |-> "none", topic |-> "none", partition |-> 0,
               handler |-> "none", handlers |-> <<>>, storeFailed |-> FALSE,
               raised |-> FALSE, thrown |-> FALSE, id |-> NoId, second |-> FALSE]

\* ------------------------------------------------------- gateway values
\* the channels setupRedisSubscriptions subscribes to, in its order
SubChannels == <<"MESSAGES", "MESSAGE_UPDATED", "MESSAGE_DELETED", "USER_STATUS">>
SubFailed == 0 - 1

\* socket.io room names: `room:${roomId}`, `user:${userId}` and 'global'
RoomName(r) == <<"room:", r>>
UserRoomName(u) == <<"user:", u>>
PlainName(n) == <<"", n>>

\* identifiers the store hands out, in order
MsgIdSeq == <<"m1", "m2", "m3", "m4">>

\* the email claim of each user's token
TokenEmail(u) == IF u = "u1" THEN "a@x" ELSE ""

Envelope(id, text, userId, roomId, status) ==
  [id |-> id, text |-> text, userId |-> userId, roomId |-> roomId,
   status |-> status]

\* request slots: two send-flow calls can be between awaits at the same time
Slots == {1, 2}

NoSend == [pc |-> "idle", origin |-> "", s |-> 0, u |-> "", roomId |-> ""]
NoDelete == [pc |-> "idle", id |-> ""]

NoOut == [pub |-> <<>>, prod |-> <<>>, sends |-> 0, emit |-> {}, res |-> <<>>,
          req |-> <<>>, hs |-> <<>>, cb |-> <<>>]

\* process exit: sockets close and the in-memory state of the gateway is gone
GatewayGone ==
  /\ live' = {}
  /\ sockUser' = [s \in Sockets |-> ""]
  /\ connectedUsers' = <<>>
  /\ userSockets' = <<>>
  /\ rooms' = [s \in Sockets |-> {}]
  /\ member' = [s \in Sockets |-> {}]
  /\ subPc' = 0
  /\ subscribed' = {}
  /\ relay' = <<>>
  /\ out' = NoOut
  /\ owed' = {}

\* ---------------------------------------------------------------- store
\* prisma.message.findUnique({where: {id}})
MessageExists(id) == id \in DOMAIN storeMessages

\* prisma.user.findUnique({where: {id}})
UserExists(id) == id \in DOMAIN storeUsers

\* prisma.room.findUnique({where: {id: roomId}}) returns a row
RoomFoundAlways(roomId) == TRUE
RoomFound(roomId) == roomId \in storeRooms

\* prisma.user.create: primary key on id, unique index on email
UserCreateAllowed(id, email) ==
  /\ id \notin DOMAIN storeUsers
  /\ \A u \in DOMAIN storeUsers : storeUsers[u] # email

UserCreatedNoEmail(id, email) ==
  [u \in DOMAIN storeUsers \cup {id} |-> IF u = id THEN "" ELSE storeUsers[u]]
UserCreated(id, email) ==
  [u \in DOMAIN storeUsers \cup {id} |->
     IF u = id THEN email ELSE storeUsers[u]]

\* rows written or removed by the other ingress paths sharing the store
\* (prisma.message.create in the send flow, prisma.message.delete in deleteMessage)
PeerCreateMessage(id, u, r) ==
  /\ alive
  /\ id \notin DOMAIN storeMessages
  /\ u \in DOMAIN storeUsers
  /\ Cardinality(DOMAIN storeMessages) < MaxMsgs
  /\ storeMessages' = [m \in DOMAIN storeMessages \cup {id} |->
        IF m = id THEN [text |-> "hi", userId |-> u, roomId |-> r]
        ELSE storeMessages[m]]
  /\ lastDispatch' = NoDispatch
  /\ out' = NoOut
  /\ UNCHANGED <<procVars, connectPc, retryCount, attempts, waitLeft, producer,
                 consumer, isConnected, consumerRunning, paused, timers,
                 appliedIds, storeUsers, storeRooms, nextId, gwState>>
  /\ UNCHANGED <<pendVars, reportedFailed>>

PeerDeleteMessage(id) ==
  /\ alive
  /\ id \in DOMAIN storeMessages
  /\ storeMessages' = [m \in DOMAIN storeMessages \ {id} |-> storeMessages[m]]
  /\ lastDispatch' = NoDispatch
  /\ out' = NoOut
  /\ UNCHANGED <<procVars, connectPc, retryCount, attempts, waitLeft, producer,
                 consumer, isConnected, consumerRunning, paused, timers,
                 appliedIds, storeUsers, storeRooms, nextId, gwState>>
  /\ UNCHANGED <<pendVars, reportedFailed>>

\* ------------------------------------------------ start-up (app.ts, index.ts)
\* initializeServices().catch(... process.exit(1))
ExitOnInitFailure ==
  /\ alive' = FALSE
  /\ initPc' = "failed"
  /\ httpListening' = FALSE
  /\ UNCHANGED ioAttached

\* step 1: prisma.$connect()
InitDatabase(ok) ==
  /\ alive /\ initPc = "db"
  /\ IF ok THEN /\ initPc' = "redis"
                /\ UNCHANGED <<alive, httpListening, ioAttached>>
           ELSE ExitOnInitFailure
  /\ lastDispatch' = NoDispatch
  /\ out' = NoOut
  /\ UNCHANGED <<connectPc, retryCount, attempts, waitLeft, producer, consumer,
                 isConnected, consumerRunning, paused, timers, appliedIds,
                 storeVars, gwState>>
  /\ UNCHANGED <<pendVars, reportedFailed>>

\* step 2: RedisClient.connect() and waitForService('Redis', ping, 10, 1000);
\* on success step 3 calls kafkaService.connect(), which enters its loop
InitRedis(ok) ==
  /\ alive /\ initPc = "redis"
  /\ IF ok THEN /\ initPc' = "kafka"
                /\ connectPc' = "attempting"
                /\ retryCount' = 0
                /\ UNCHANGED <<alive, httpListening, ioAttached>>
           ELSE /\ ExitOnInitFailure
                /\ UNCHANGED <<connectPc, retryCount>>
  /\ lastDispatch' = NoDispatch
  /\ out' = NoOut
  /\ UNCHANGED <<attempts, waitLeft, producer, consumer, isConnected,
                 consumerRunning, paused, timers, appliedIds, storeVars, gwState>>
  /\ UNCHANGED <<pendVars, reportedFailed>>

\* ------------------------------------------------- KafkaService.connect()
\* if (retryCount >= maxRetries) throw
BudgetExhaustedOff(rc) == FALSE
BudgetExhausted(rc) == rc >= maxRetries

\* Math.min(1000 * Math.pow(2, retryCount - 1), 30000)
WaitTimeUncapped(rc) == BackoffBaseMs * Pow2(rc - 1)
WaitTime(rc) ==
  IF BackoffBaseMs * Pow2(rc - 1) < BackoffCapMs
  THEN BackoffBaseMs * Pow2(rc - 1) ELSE BackoffCapMs

\* the cleanup block of the catch: a throwing disconnect abandons the rest
CleanupProducer(cleanup) == IF cleanup = "producerThrows" THEN "client" ELSE "null"
CleanupConsumer(cleanup) == IF cleanup = "ok" THEN "null" ELSE "client"

\* one iteration of the while loop: outcome "ok", or the connect call that fails
ConnectAttempt(outcome, cleanup) ==
  /\ alive /\ initPc = "kafka" /\ connectPc = "attempting"
  /\ retryCount < maxRetries
  /\ attempts' = attempts + 1
  /\ IF outcome = "ok"
     THEN /\ producer' = "client"
          /\ consumer' = "client"
          /\ isConnected' = TRUE
          /\ connectPc' = "returned"
          /\ initPc' = "consumer"
          /\ UNCHANGED <<retryCount, waitLeft, alive, httpListening, ioAttached>>
     ELSE /\ retryCount' = retryCount + 1
          /\ producer' = CleanupProducer(cleanup)
          /\ consumer' = CleanupConsumer(cleanup)
          /\ UNCHANGED isConnected
          /\ IF BudgetExhausted(retryCount + 1)
             THEN /\ connectPc' = "thrown"
                  /\ ExitOnInitFailure
                  /\ UNCHANGED waitLeft
             ELSE /\ connectPc' = "waiting"
                  /\ waitLeft' = WaitTime(retryCount + 1)
                  /\ UNCHANGED <<procVars>>
  /\ lastDispatch' = NoDispatch
  /\ out' = NoOut
  /\ UNCHANGED <<consumerRunning, paused, timers, appliedIds, storeVars, gwState>>
  /\ UNCHANGED <<pendVars, reportedFailed>>

\* the backoff promise resolves; the while condition is evaluated again and a
\* false condition leaves the loop, so connect() returns without connecting
BackoffElapsed ==
  /\ alive /\ connectPc = "waiting" /\ waitLeft = 0
  /\ IF retryCount < maxRetries
     THEN /\ connectPc' = "attempting"
          /\ UNCHANGED initPc
     ELSE /\ connectPc' = "returned"
          /\ initPc' = "consumer"
  /\ lastDispatch' = NoDispatch
  /\ out' = NoOut
  /\ UNCHANGED <<alive, httpListening, ioAttached, retryCount, attempts,
                 waitLeft, producer, consumer, isConnected, consumerRunning,
                 paused, timers, appliedIds, storeVars, gwState>>
  /\ UNCHANGED <<pendVars, reportedFailed>>

\* kafkaService.startConsumer(), then step 4 (synchronous): new Server(...),
\* io.use(authenticateSocket), new SocketService(io), initListeners().
\* The locals of the finished connect() call are gone by then.
StartConsumer(ok) ==
  /\ alive /\ initPc = "consumer"
  /\ IF consumer = "null" \/ ~isConnected \/ ~ok
     THEN /\ ExitOnInitFailure
          /\ UNCHANGED <<consumerRunning, retryCount, attempts, subPc>>
     ELSE /\ consumerRunning' = TRUE
          /\ ioAttached' = TRUE
          /\ subPc' = 1
          /\ initPc' = "ready"
          /\ retryCount' = 0
          /\ attempts' = 0
          /\ UNCHANGED <<alive, httpListening>>
  /\ lastDispatch' = NoDispatch
  /\ UNCHANGED <<connectPc, waitLeft, producer, consumer,
                 isConnected, paused, timers, appliedIds, storeVars,
                 registryVars, roomVars, subscribed, relay, owed>>
  /\ out' = NoOut
  /\ UNCHANGED <<pendVars, reportedFailed>>

\* SIGTERM handler: server.close, Redis disconnect, KafkaService.disconnect
\* (a throwing client disconnect leaves isConnected untouched), process.exit(0)
Shutdown(disconnectOk) ==
  /\ alive
  /\ alive' = FALSE
  /\ httpListening' = FALSE
  /\ isConnected' = IF disconnectOk THEN FALSE ELSE isConnected
  /\ consumerRunning' = FALSE
  /\ paused' = {}
  /\ timers' = <<>>
  /\ lastDispatch' = NoDispatch
  /\ GatewayGone
  /\ UNCHANGED <<initPc, ioAttached, connectPc, retryCount, attempts, waitLeft,
                 producer, consumer, appliedIds, storeVars>>
  /\ UNCHANGED <<pendVars, reportedFailed>>

\* ------------------------------------------- KafkaService consumer callbacks
\* payloads the broker hands to eachMessage: message.value === null, bytes
\* that are not JSON, the JSON literal null, or a JSON object
NonObjectPayloads ==
  {[kind |-> k, id |-> NoId, text |-> "", userId |-> "", email |-> ""] :
     k \in {"empty", "malformed", "jsonNull"}}

\* envelopes of every shape the validation distinguishes
IngestPayloads(topic) ==
  IF topic = "MESSAGES"
  THEN {[kind |-> "json", id |-> i, text |-> t, userId |-> u, email |-> ""] :
          i \in {"m1", "m2", NoId}, t \in {"", "hi"}, u \in {"", "u1"}}
  ELSE {[kind |-> "json", id |-> i, text |-> "", userId |-> "", email |-> e] :
          i \in {"", "u1", "u2"}, e \in {"", "a@x"}}

\* one well-formed envelope per topic next to the payloads that are not objects
BusPayloads(topic) ==
  NonObjectPayloads \cup
  (IF topic = "MESSAGES"
   THEN {[kind |-> "json", id |-> "m1", text |-> "hi", userId |-> "u1", email |-> ""]}
   ELSE {[kind |-> "json", id |-> "u1", text |-> "", userId |-> "", email |-> "a@x"]})

\* JSON.parse(message.value.toString()) throws on bytes that are not JSON
DecodeFails(payload) == payload.kind = "malformed"

\* the store as an upsert by identifier would leave it
MessageUpserted(data) ==
  [m \in DOMAIN storeMessages \cup {data.id} |->
     IF m \in DOMAIN storeMessages THEN storeMessages[m]
     ELSE [text |-> data.text, userId |-> data.userId, roomId |-> "global"]]

HandleNewMessageUpsert(data, fault) ==
  IF data.kind = "jsonNull" \/ data.text = "" \/ data.userId = ""
  THEN [raised |-> FALSE, storeFailed |-> FALSE, applied |-> FALSE,
        users |-> storeUsers, messages |-> storeMessages]
  ELSE IF data.id # NoId /\ fault = "find"
  THEN [raised |-> FALSE, storeFailed |-> TRUE, applied |-> FALSE,
        users |-> storeUsers, messages |-> storeMessages]
  ELSE [raised |-> FALSE, storeFailed |-> FALSE, applied |-> TRUE,
        users |-> storeUsers,
        messages |-> IF data.id # NoId THEN MessageUpserted(data) ELSE storeMessages]

\* handleNewMessage: validation, findUnique by id, no write; its try/catch
\* swallows every error (a store fault, a property read on null)
HandleNewMessage(data, fault) ==
  IF data.kind = "jsonNull"
  THEN [raised |-> FALSE, storeFailed |-> FALSE, applied |-> FALSE,
        users |-> storeUsers, messages |-> storeMessages]
  ELSE IF data.text = "" \/ data.userId = ""
  THEN [raised |-> FALSE, storeFailed |-> FALSE, applied |-> FALSE,
        users |-> storeUsers, messages |-> storeMessages]
  ELSE IF data.id # NoId /\ fault = "find"
  THEN [raised |-> FALSE, storeFailed |-> TRUE, applied |-> FALSE,
        users |-> storeUsers, messages |-> storeMessages]
  ELSE IF data.id # NoId /\ MessageExists(data.id)
  THEN [raised |-> FALSE, storeFailed |-> FALSE, applied |-> TRUE,
        users |-> storeUsers, messages |-> storeMessages]
  ELSE [raised |-> FALSE, storeFailed |-> FALSE, applied |-> TRUE,
        users |-> storeUsers, messages |-> storeMessages]

\* handleUserRegistered: validation, findUnique, create; errors swallowed
HandleUserRegistered(data, fault) ==
  IF data.kind = "jsonNull" \/ data.id = "" \/ data.email = ""
  THEN [raised |-> FALSE, storeFailed |-> FALSE, applied |-> FALSE,
        users |-> storeUsers, messages |-> storeMessages]
  ELSE IF fault = "find"
  THEN [raised |-> FALSE, storeFailed |-> TRUE, applied |-> FALSE,
        users |-> storeUsers, messages |-> storeMessages]
  ELSE IF UserExists(data.id)
  THEN [raised |-> FALSE, storeFailed |-> FALSE, applied |-> TRUE,
        users |-> storeUsers, messages |-> storeMessages]
  ELSE IF fault = "create" \/ ~UserCreateAllowed(data.id, data.email)
  THEN [raised |-> FALSE, storeFailed |-> TRUE, applied |-> FALSE,
        users |-> storeUsers, messages |-> storeMessages]
  ELSE [raised |-> FALSE, storeFailed |-> FALSE, applied |-> TRUE,
        users |-> UserCreated(data.id, data.email), messages |-> storeMessages]

\* the handlers that only log
HandleLogOnlyApplies(data) ==
  [raised |-> FALSE, storeFailed |-> FALSE, applied |-> data.kind # "jsonNull",
   users |-> storeUsers,
   messages |-> IF data.kind = "json"
                THEN [m \in DOMAIN storeMessages \ {data.id} |-> storeMessages[m]]
                ELSE storeMessages]
HandleLogOnly(data) ==
  [raised |-> FALSE, storeFailed |-> FALSE, applied |-> data.kind # "jsonNull",
   users |-> storeUsers, messages |-> storeMessages]

\* handleMessage: switch (topic)
HandlerOf(topic) ==
  CASE topic = "MESSAGES" -> "handleNewMessage"
    [] topic = "MESSAGE_UPDATED" -> "handleMessageUpdate"
    [] topic = "MESSAGE_DELETED" -> "handleMessageDeletion"
    [] topic = "user.registered" -> "handleUserRegistered"
    [] topic = "USER_CREATED" -> "handleUserCreated"
    [] topic = "ROOM_CREATED" -> "handleRoomCreated"
    [] topic = "ROOM_UPDATED" -> "handleRoomUpdated"
    [] topic = "ROOM_DELETED" -> "handleRoomDeleted"
    [] OTHER -> "none"

\* the cases of the switch, in source order
CaseOrder == <<"MESSAGES", "MESSAGE_UPDATED", "MESSAGE_DELETED", "user.registered",
               "USER_CREATED", "ROOM_CREATED", "ROOM_UPDATED", "ROOM_DELETED">>

\* the handlers one handleMessage call invokes: every case ends in break, the
\* default branch only logs
HandlersInvokedFallThrough(topic) ==
  LET at == {i \in 1..Len(CaseOrder) : CaseOrder[i] = topic}
  IN IF at = {} THEN <<>>
     ELSE [i \in 1..(Len(CaseOrder) - Min(at) + 1) |->
             HandlerOf(CaseOrder[Min(at) + i - 1])]
HandlersInvoked(topic) ==
  IF \E i \in 1..Len(CaseOrder) : CaseOrder[i] = topic
  THEN <<HandlerOf(topic)>> ELSE <<>>

HandleMessage(topic, data, fault) ==
  CASE topic = "MESSAGES" -> HandleNewMessage(data, fault)
    [] topic = "user.registered" -> HandleUserRegistered(data, fault)
    [] HandlersInvoked(topic) = <<>> ->
         [raised |-> FALSE, storeFailed |-> FALSE, applied |-> FALSE,
          users |-> storeUsers, messages |-> storeMessages]
    [] OTHER -> HandleLogOnly(data)

\* eachMessage wraps its body in try/catch and the catch does not rethrow:
\* the callback never rejects towards the kafkajs runner
CallbackThrowsOnFailure(failed) == failed
CallbackThrows(failed) == FALSE

\* pause() of EachMessagePayload: pauses the topic-partition of the message
PausedAfter(topic, partition) == paused \cup {<<topic, partition>>}

\* setTimeout(() => this.consumer?.resume([{ topic }]), 30000)
TimersAfter(topic) == Append(timers, [topic |-> topic, remaining |-> CooldownMs])

\* consumer.resume([{ topic }]): every partition of the topic
ResumedNone(topic) == paused
Resumed(topic) == {tp \in paused : tp[1] # topic}

\* what the topic handlers emit to sockets: KafkaService has no access to the
\* socket.io server, its handlers validate, look up and log
BusEmitsRebroadcast(topic, payload) ==
  IF topic = "MESSAGES" /\ payload.kind = "json"
  THEN {[to |-> x, event |-> "message:new", payload |-> payload] : x \in live}
  ELSE {}
BusEmits(topic, payload) == {}

\* eachMessage({ topic, partition, message, pause })
Dispatch(topic, partition, payload, fault) ==
  /\ alive /\ consumerRunning
  /\ <<topic, partition>> \notin paused
  /\ LET decodeFails == payload.kind # "empty" /\ DecodeFails(payload)
         handled == payload.kind # "empty" /\ ~decodeFails
         res == IF handled THEN HandleMessage(topic, payload, fault)
                ELSE [raised |-> FALSE, storeFailed |-> FALSE, applied |-> FALSE,
                      users |-> storeUsers, messages |-> storeMessages]
         failed == decodeFails \/ res.raised
         isNew == handled /\ topic = "MESSAGES" /\ res.applied
     IN /\ failed => Len(timers) < MaxTimers
        /\ paused' = IF failed THEN PausedAfter(topic, partition) ELSE paused
        /\ timers' = IF failed THEN TimersAfter(topic) ELSE timers
        /\ storeUsers' = res.users
        /\ storeMessages' = res.messages
        /\ appliedIds' = IF isNew /\ payload.id # NoId
                         THEN appliedIds \cup {payload.id} ELSE appliedIds
        /\ lastDispatch' =
             [kind |-> IF payload.kind = "empty" THEN "empty"
                       ELSE IF decodeFails THEN "decodeError" ELSE "handled",
              topic |-> topic, partition |-> partition,
              handler |-> IF handled THEN HandlerOf(topic) ELSE "none",
              handlers |-> IF handled THEN HandlersInvoked(topic) ELSE <<>>,
              storeFailed |-> res.storeFailed, raised |-> res.raised,
              thrown |-> CallbackThrows(failed),
              id |-> IF isNew THEN payload.id ELSE NoId,
              second |-> isNew /\ payload.id \in appliedIds]
  /\ out' = [NoOut EXCEPT !.emit = BusEmits(topic, payload)]
  /\ UNCHANGED <<procVars, connectPc, retryCount, attempts, waitLeft, producer,
                 consumer, isConnected, consumerRunning, storeRooms, nextId, gwState>>
  /\ UNCHANGED <<pendVars, reportedFailed>>

\* the resume timer of an earlier failure fires
TimerFire ==
  /\ alive
  /\ timers # <<>>
  /\ Head(timers).remaining = 0
  /\ paused' = IF consumer # "null" THEN Resumed(Head(timers).topic) ELSE paused
  /\ timers' = Tail(timers)
  /\ lastDispatch' = [NoDispatch EXCEPT !.kind = "resume", !.topic = Head(timers).topic]
  /\ out' = NoOut
  /\ UNCHANGED <<procVars, connectPc, retryCount, attempts, waitLeft, producer,
                 consumer, isConnected, consumerRunning, appliedIds, storeVars, gwState>>
  /\ UNCHANGED <<pendVars, reportedFailed>>

\* time passes, at most up to the next pending timer
PendingTimes ==
  {timers[i].remaining : i \in 1..Len(timers)}
  \cup (IF connectPc = "waiting" THEN {waitLeft} ELSE {})

Tick ==
  /\ alive
  /\ PendingTimes # {}
  /\ 0 \notin PendingTimes
  /\ LET d == Min(PendingTimes \cup {TickMs})
     IN /\ timers' = [i \in 1..Len(timers) |->
                        [timers[i] EXCEPT !.remaining = @ - d]]
        /\ waitLeft' = IF connectPc = "waiting" THEN waitLeft - d ELSE waitLeft
  /\ lastDispatch' = NoDispatch
  /\ out' = NoOut
  /\ UNCHANGED <<procVars, connectPc, retryCount, attempts, producer, consumer,
                 isConnected, consumerRunning, paused, appliedIds, storeVars, gwState>>
  /\ UNCHANGED <<pendVars, reportedFailed>>

\* ------------------------------------------------------------ RedisClient
\* Redis hands a publication to the subscriber client only for a channel the
\* client is subscribed to at that moment, after the publications before it
PublishedFirst(queue, channel, kind, payload) ==
  IF channel \in subscribed
  THEN <<[channel |-> channel, kind |-> kind, payload |-> payload]>> \o queue
  ELSE queue
Published(queue, channel, kind, payload) ==
  IF channel \in subscribed
  THEN Append(queue, [channel |-> channel, kind |-> kind, payload |-> payload])
  ELSE queue

PubCall(channel, payload, ok) == [channel |-> channel, payload |-> payload, ok |-> ok]

\* setupRedisSubscriptions: one RedisClient.subscribe per channel, in order;
\* the first failure is caught and logged and ends the sequence
SubscribeStep(ok) ==
  /\ alive
  /\ subPc \in 1..Len(SubChannels)
  /\ IF ok THEN /\ subscribed' = subscribed \cup {SubChannels[subPc]}
                /\ subPc' = subPc + 1
           ELSE /\ subPc' = SubFailed
                /\ UNCHANGED subscribed
  /\ out' = NoOut
  /\ UNCHANGED <<procVars, busVars, storeVars, registryVars, roomVars, relay, owed>>
  /\ UNCHANGED <<pendVars, reportedFailed>>

\* ------------------------------------------- SocketService: user tracking
AddUserSocket(cu, userId, socketId) ==
  [u \in DOMAIN cu \cup {userId} |->
     IF u = userId
     THEN (IF userId \in DOMAIN cu THEN cu[userId] ELSE {}) \cup {socketId}
     ELSE cu[u]]

AddUserSocketIndex(us, userId, socketId) ==
  [x \in DOMAIN us \cup {socketId} |-> IF x = socketId THEN userId ELSE us[x]]

RemoveUserSocketKeepEntry(cu, userId, socketId) ==
  IF userId \in DOMAIN cu THEN [cu EXCEPT ![userId] = @ \ {socketId}] ELSE cu
RemoveUserSocket(cu, userId, socketId) ==
  IF userId \in DOMAIN cu
  THEN IF cu[userId] \ {socketId} = {}
       THEN [u \in DOMAIN cu \ {userId} |-> cu[u]]
       ELSE [cu EXCEPT ![userId] = @ \ {socketId}]
  ELSE cu

RemoveUserSocketIndexKeep(us, socketId) == us
RemoveUserSocketIndex(us, socketId) ==
  [x \in DOMAIN us \ {socketId} |-> us[x]]

isUserOnline(userId) == userId \in DOMAIN connectedUsers

getUserSocketCount(userId) ==
  IF userId \in DOMAIN connectedUsers THEN Cardinality(connectedUsers[userId]) ELSE 0

\* the disconnect handler's test: if (!this.connectedUsers.has(socket.userId))
OfflineDueAlways(cu, userId) == TRUE
OfflineDue(cu, userId) == userId \notin DOMAIN cu

\* the server accepts a socket once the socket.io Server is attached
RealtimeAcceptingEarly == alive /\ httpListening
RealtimeAccepting == alive /\ ioAttached

\* sockets in a socket.io room
InRoom(name) == {x \in live : name \in rooms[x]}

Emit(to, event, payload) == {[to |-> x, event |-> event, payload |-> payload] : x \in to}

\* ------------------------------------------- authenticateSocket (io.use)
\* A string is the sequence of its parts between single spaces: <<>> is an
\* absent or empty value, <<"Bearer", t>> is 'Bearer t'.
\* the JWT each user's auth service issued
TokenOf(u) == IF u = "u1" THEN "jwt-u1" ELSE "jwt-u2"

\* jwt.verify(token, secret): the decoded user id (sub || id), or the name of
\* the error thrown; a string with a space in it is not a JWT
VerifyToken(token) ==
  IF Len(token) # 1 THEN [error |-> "JsonWebTokenError", userId |-> ""]
  ELSE CASE token[1] = "jwt-u1" -> [error |-> "", userId |-> "u1"]
         [] token[1] = "jwt-u2" -> [error |-> "", userId |-> "u2"]
         [] token[1] = "jwt-nouser" -> [error |-> "", userId |-> ""]
         [] token[1] = "jwt-expired" -> [error |-> "TokenExpiredError", userId |-> ""]
         [] token[1] = "jwt-notbefore" -> [error |-> "NotBeforeError", userId |-> ""]
         [] OTHER -> [error |-> "JsonWebTokenError", userId |-> ""]

\* socket.handshake.headers?.authorization?.split(' ')[1]
HeaderToken(header) == IF Len(header) >= 2 THEN <<header[2]>> ELSE <<>>

\* auth?.token || query?.token || authorization.split(' ')[1]
ExtractToken(auth, query, header) ==
  IF auth # <<>> THEN auth
  ELSE IF query # <<>> THEN query
  ELSE HeaderToken(header)

\* if (token.startsWith('Bearer ')) token = token.substring(7)
StripBearer(token) ==
  IF Len(token) >= 2 /\ token[1] = "Bearer" THEN Tail(token) ELSE token

\* the catch block: next(new Error(...)) by error.name
RejectionReasonMerged(error) == "Authentication failed"
RejectionReason(error) ==
  CASE error = "TokenExpiredError" -> "Token expired - please login again"
    [] error = "JsonWebTokenError" -> "Invalid token format"
    [] OTHER -> "Authentication failed"

\* the outcome of the middleware for one handshake
AuthenticateSocket(auth, query, header) ==
  LET token == ExtractToken(auth, query, header)
      v == VerifyToken(StripBearer(token))
  IN IF token = <<>>
     THEN [ok |-> FALSE, verified |-> FALSE, error |-> "", userId |-> "",
           reason |-> "Authentication required - no token provided"]
     ELSE IF v.error # ""
     THEN [ok |-> FALSE, verified |-> TRUE, error |-> v.error, userId |-> "",
           reason |-> RejectionReason(v.error)]
     ELSE IF v.userId = ""
     THEN [ok |-> FALSE, verified |-> TRUE, error |-> "", userId |-> "",
           reason |-> "Invalid token - no user ID found"]
     ELSE [ok |-> TRUE, verified |-> TRUE, error |-> "", userId |-> v.userId,
           reason |-> ""]

\* a handshake reaches the middleware: next() lets the connection proceed
\* with socket.userId set, next(err) refuses it
Handshake(s, auth, query, header) ==
  /\ RealtimeAccepting
  /\ s \notin live
  /\ sockUser[s] = ""
  /\ LET r == AuthenticateSocket(auth, query, header)
     IN /\ sockUser' = IF r.ok THEN [sockUser EXCEPT ![s] = r.userId] ELSE sockUser
        /\ out' = [NoOut EXCEPT !.hs =
                     <<[socket |-> s, auth |-> auth, query |-> query,
                        header |-> header, ok |-> r.ok, verified |-> r.verified,
                        error |-> r.error, reason |-> r.reason,
                        userId |-> r.userId]>>]
  /\ lastDispatch' = NoDispatch
  /\ UNCHANGED <<procVars, connectPc, retryCount, attempts, waitLeft, producer,
                 consumer, isConnected, consumerRunning, paused, timers,
                 appliedIds, storeVars, live, connectedUsers, userSockets,
                 roomVars, relayVars, owed>>
  /\ UNCHANGED <<pendVars, reportedFailed>>

\* io.on('connection'): the handshake (authenticateSocket) set socket.userId
Connect(s, u, relayOk) ==
  /\ RealtimeAccepting
  /\ s \notin live
  /\ Len(relay) < MaxRelay
  /\ live' = live \cup {s}
  /\ sockUser' = [sockUser EXCEPT ![s] = u]
  /\ connectedUsers' = AddUserSocket(connectedUsers, u, s)
  /\ userSockets' = AddUserSocketIndex(userSockets, u, s)
  /\ rooms' = [rooms EXCEPT ![s] = {UserRoomName(u), PlainName("global")}]
  /\ relay' = IF relayOk
              THEN Published(relay, "USER_STATUS", "json", Envelope("", "", u, "", "online"))
              ELSE relay
  /\ out' = [NoOut EXCEPT !.pub =
               <<PubCall("USER_STATUS", Envelope("", "", u, "", "online"), relayOk)>>]
  /\ lastDispatch' = NoDispatch
  /\ UNCHANGED <<procVars, connectPc, retryCount, attempts, waitLeft, producer,
                 consumer, isConnected, consumerRunning, paused, timers,
                 appliedIds, storeVars, member, subPc, subscribed, owed>>
  /\ UNCHANGED <<pendVars, reportedFailed>>

\* socket.on('disconnect'); socket.io has taken the socket out of its rooms
Disconnect(s, relayOk) ==
  /\ alive
  /\ s \in live
  /\ Len(relay) < MaxRelay
  /\ LET u == sockUser[s]
         cu == RemoveUserSocket(connectedUsers, u, s)
         off == OfflineDue(cu, u)
         env == Envelope("", "", u, "", "offline")
     IN /\ connectedUsers' = cu
        /\ userSockets' = RemoveUserSocketIndex(userSockets, s)
        /\ relay' = IF off /\ relayOk
                    THEN Published(relay, "USER_STATUS", "json", env) ELSE relay
        /\ out' = [NoOut EXCEPT !.pub =
                     IF off THEN <<PubCall("USER_STATUS", env, relayOk)>> ELSE <<>>]
  /\ live' = live \ {s}
  /\ sockUser' = [sockUser EXCEPT ![s] = ""]
  /\ rooms' = [rooms EXCEPT ![s] = {}]
  /\ member' = [member EXCEPT ![s] = {}]
  /\ owed' = {o \in owed : o.to # s}
  /\ lastDispatch' = NoDispatch
  /\ UNCHANGED <<procVars, connectPc, retryCount, attempts, waitLeft, producer,
                 consumer, isConnected, consumerRunning, paused, timers,
                 appliedIds, storeVars, subPc, subscribed>>
  /\ UNCHANGED <<pendVars, reportedFailed>>

\* ------------------------------------------- SocketService: rooms
\* the room name join:room enters
JoinedNamePlain(roomId) == PlainName(roomId)
JoinedName(roomId) == RoomName(roomId)

\* socket.leave(`room:${roomId}`)
RoomsAfterLeaveNone(s, roomId) == rooms[s]
RoomsAfterLeave(s, roomId) == rooms[s] \ {RoomName(roomId)}

\* socket.on('join:room')
JoinRoom(s, roomId, fault) ==
  /\ alive
  /\ s \in live
  /\ IF roomId # "global" /\ fault = "find"
     THEN /\ out' = [NoOut EXCEPT !.emit =
                       Emit({s}, "error", Envelope("", "Failed to join room", "", "", ""))]
          /\ UNCHANGED <<rooms, member>>
     ELSE IF roomId # "global" /\ ~RoomFound(roomId)
     THEN /\ out' = [NoOut EXCEPT !.emit =
                       Emit({s}, "error", Envelope("", "Room not found", "", "", ""))]
          /\ UNCHANGED <<rooms, member>>
     ELSE /\ rooms' = [rooms EXCEPT ![s] = @ \cup {JoinedName(roomId)}]
          /\ member' = [member EXCEPT ![s] = @ \cup {roomId}]
          /\ out' = [NoOut EXCEPT !.emit =
                       Emit(InRoom(RoomName(roomId)) \ {s}, "user:joined",
                            Envelope("", "", sockUser[s], roomId, ""))]
  /\ lastDispatch' = NoDispatch
  /\ UNCHANGED <<procVars, connectPc, retryCount, attempts, waitLeft, producer,
                 consumer, isConnected, consumerRunning, paused, timers,
                 appliedIds, storeVars, registryVars, relayVars, owed>>
  /\ UNCHANGED <<pendVars, reportedFailed>>

\* socket.on('leave:room')
LeaveRoom(s, roomId) ==
  /\ alive
  /\ s \in live
  /\ rooms' = [rooms EXCEPT ![s] = RoomsAfterLeave(s, roomId)]
  /\ member' = [member EXCEPT ![s] = @ \ {roomId}]
  /\ out' = [NoOut EXCEPT !.emit =
               Emit(InRoom(RoomName(roomId)) \ {s}, "user:left",
                    Envelope("", "", sockUser[s], roomId, ""))]
  /\ owed' = {o \in owed : ~(o.to = s /\ o.room = roomId)}
  /\ lastDispatch' = NoDispatch
  /\ UNCHANGED <<procVars, connectPc, retryCount, attempts, waitLeft, producer,
                 consumer, isConnected, consumerRunning, paused, timers,
                 appliedIds, storeVars, registryVars, relayVars>>
  /\ UNCHANGED <<pendVars, reportedFailed>>

\* ------------------------------------------- SocketService: send flow
\* String.prototype.trim and String.prototype.length on the texts in use;
\* "x*N" stands for a text of N characters none of which is white space
Trim(text) ==
  CASE text = "  " -> ""
    [] text = " hi " -> "hi"
    [] text = " x*998 " -> "x*998"
    [] text = " x*999 " -> "x*999"
    [] OTHER -> text

TextLen(text) ==
  CASE text = "" -> 0
    [] text = "  " -> 2
    [] text = "hi" -> 2
    [] text = " hi " -> 4
    [] text = "x*998" -> 998
    [] text = "x*999" -> 999
    [] text = " x*998 " -> 1000
    [] text = "x*1000" -> 1000
    [] text = " x*999 " -> 1001
    [] text = "x*1001" -> 1001
    [] OTHER -> 1

MaxTextLen == 1000

\* if (data.text.length > 1000) / if (text.length > 1000) / z.string().max(1000)
TooLongInclusive(text) == TextLen(text) >= MaxTextLen
TooLong(text) == TextLen(text) > MaxTextLen

\* the request a send-flow step handled: its origin, the authenticated user,
\* the text as received, the room it resolved and the call the environment fails
Request(origin, userId, text, roomId, fault) ==
  [origin |-> origin, userId |-> userId, text |-> text, roomId |-> roomId,
   fault |-> fault]

\* where the message:send handler stops: at a validation, at the first call
\* that throws (fault names the call the environment fails), or at its end
SendStage(s, text, roomId, fault) ==
  LET u == sockUser[s] IN
  IF text = "" \/ TextLen(Trim(text)) = 0 THEN "textRequired"
  ELSE IF TooLong(text) THEN "tooLong"
  ELSE IF roomId # "global" /\ fault = "roomFind" THEN "failedEarly"
  ELSE IF roomId # "global" /\ ~RoomFound(roomId) THEN "roomNotFound"
  ELSE IF fault = "userFind" THEN "failedEarly"
  ELSE IF ~UserExists(u) /\ (fault = "userCreate" \/ ~UserCreateAllowed(u, TokenEmail(u)))
       THEN "failedEarly"
  ELSE IF fault = "messageCreate" THEN "failedAtCreate"
  ELSE IF fault = "relay" THEN "failedAtPublish"
  ELSE IF producer = "null" \/ ~isConnected THEN "failedBeforeProduce"
  ELSE IF fault = "bus" THEN "failedAtProduce"
  ELSE "done"

SendErrorText(stage) ==
  CASE stage = "textRequired" -> "Message text is required"
    [] stage = "tooLong" -> "Message too long (max 1000 characters)"
    [] stage = "roomNotFound" -> "Room not found"
    [] OTHER -> "Failed to send message"

\* every path of the handler that does not reach its end ends in
\* socket.emit('error', ...): the validations and the catch block
ErrorSurfacedExceptProduce(stage) ==
  stage \notin {"done", "failedBeforeProduce", "failedAtProduce"}
ErrorSurfaced(stage) == stage # "done"

\* kafkaService.produceMessage('MESSAGES', messagePayload): called once the
\* Relay publish has returned; it throws before producer.send when the
\* producer is missing or not connected, or when producer.send rejects
ProduceCalls(stage, env) ==
  IF stage \in {"failedBeforeProduce", "failedAtProduce", "done"}
  THEN <<PubCall("MESSAGES", env, stage = "done")>> ELSE <<>>

\* producer.send calls of one produceMessage call: none when the guard
\* (!this.producer || !this.isConnected) throws, otherwise one, whose
\* rejection is logged and rethrown
SendAttemptsUnguarded(stage) ==
  IF stage \in {"failedBeforeProduce", "failedAtProduce", "done"} THEN 1 ELSE 0
SendAttempts(stage) ==
  IF stage \in {"failedAtProduce", "done"} THEN 1 ELSE 0

\* io.to(`room:${roomId}`): the sockets a room-scoped broadcast reaches
Audience(roomId) == InRoom(RoomName(roomId))

\* socket.on('message:send')
Send(s, text, roomArg, fault) ==
  /\ alive
  /\ s \in live
  /\ nextId <= MaxMsgs
  /\ Len(relay) < MaxRelay
  /\ LET u == sockUser[s]
         roomId == IF roomArg = "" THEN "global" ELSE roomArg
         stage == SendStage(s, text, roomId, fault)
         userEnsured == stage \in {"failedAtCreate", "failedAtPublish",
                                   "failedBeforeProduce", "failedAtProduce", "done"}
         persisted == stage \in {"failedAtPublish", "failedBeforeProduce",
                                 "failedAtProduce", "done"}
         publishedOk == stage \in {"failedBeforeProduce", "failedAtProduce", "done"}
         id == MsgIdSeq[nextId]
         env == Envelope(id, Trim(text), u, roomId, "")
     IN /\ storeUsers' = IF userEnsured /\ ~UserExists(u)
                         THEN UserCreated(u, TokenEmail(u)) ELSE storeUsers
        /\ storeMessages' =
             IF persisted
             THEN [m \in DOMAIN storeMessages \cup {id} |->
                     IF m = id THEN [text |-> Trim(text), userId |-> u, roomId |-> roomId]
                     ELSE storeMessages[m]]
             ELSE storeMessages
        /\ nextId' = IF persisted THEN nextId + 1 ELSE nextId
        /\ relay' = IF publishedOk THEN Published(relay, "MESSAGES", "json", env)
                    ELSE relay
        /\ out' = [pub |-> IF persisted
                           THEN <<PubCall("MESSAGES", env, publishedOk)>> ELSE <<>>,
                   prod |-> ProduceCalls(stage, env),
                   sends |-> SendAttempts(stage),
                   emit |-> IF ErrorSurfaced(stage)
                            THEN Emit({s}, "error",
                                      Envelope("", SendErrorText(stage), "", "", ""))
                            ELSE {},
                   res |-> <<>>,
                   req |-> <<Request("socket", u, text, roomId, fault)>>,
                   hs |-> <<>>,
                   cb |-> <<>>]
        /\ owed' = IF stage = "done"
                   THEN owed \cup {[id |-> id, to |-> x, room |-> roomId] :
                                     x \in Audience(roomId)}
                   ELSE owed
        /\ reportedFailed' = IF persisted /\ ErrorSurfaced(stage)
                             THEN reportedFailed \cup {id} ELSE reportedFailed
  /\ lastDispatch' = NoDispatch
  /\ UNCHANGED <<procVars, connectPc, retryCount, attempts, waitLeft, producer,
                 consumer, isConnected, consumerRunning, paused, timers,
                 appliedIds, storeRooms, registryVars, roomVars, subPc, subscribed>>
  /\ UNCHANGED pendVars

\* ------------------------------------------- MessageController (REST)
\* validate(createMessageSchema): body.text is a string of 1 to 1000 characters
SchemaRejects(text) == TextLen(text) < 1 \/ TooLong(text)

\* where POST /api/messages stops: at the schema, at a validation of
\* createMessage, at the first call that throws, or at its end
RestStage(u, text, roomId, fault) ==
  IF SchemaRejects(text) THEN "schemaRejected"
  ELSE IF text = "" \/ TextLen(Trim(text)) = 0 THEN "textRequired"
  ELSE IF TooLong(text) THEN "tooLong"
  ELSE IF fault = "userFind" THEN "failedEarly"
  ELSE IF ~UserExists(u) /\ (fault = "userCreate" \/ ~UserCreateAllowed(u, TokenEmail(u)))
       THEN "failedEarly"
  ELSE IF roomId # "global" /\ fault = "roomFind" THEN "failedAfterUser"
  ELSE IF roomId # "global" /\ ~RoomFound(roomId) THEN "roomNotFound"
  ELSE IF fault = "messageCreate" THEN "failedAtCreate"
  ELSE IF fault = "relay" THEN "failedAtPublish"
  ELSE IF producer = "null" \/ ~isConnected THEN "failedBeforeProduce"
  ELSE IF fault = "bus" THEN "failedAtProduce"
  ELSE "done"

\* res.status(...) of each exit; a ZodError becomes 400 in errorHandler
RestStatus(stage) ==
  CASE stage \in {"schemaRejected", "textRequired", "tooLong"} -> 400
    [] stage = "roomNotFound" -> 404
    [] stage = "done" -> 201
    [] OTHER -> 500

\* POST /api/messages by the authenticated user u (req.user.id)
RestCreateMessage(u, text, roomArg, fault) ==
  /\ alive /\ httpListening
  /\ nextId <= MaxMsgs
  /\ Len(relay) < MaxRelay
  /\ LET roomId == IF roomArg = "" THEN "global" ELSE roomArg
         stage == RestStage(u, text, roomId, fault)
         userEnsured == stage \in {"failedAfterUser", "roomNotFound", "failedAtCreate",
                                   "failedAtPublish", "failedBeforeProduce",
                                   "failedAtProduce", "done"}
         persisted == stage \in {"failedAtPublish", "failedBeforeProduce",
                                 "failedAtProduce", "done"}
         publishedOk == stage \in {"failedBeforeProduce", "failedAtProduce", "done"}
         id == MsgIdSeq[nextId]
         env == Envelope(id, Trim(text), u, roomId, "")
     IN /\ storeUsers' = IF userEnsured /\ ~UserExists(u)
                         THEN UserCreated(u, TokenEmail(u)) ELSE storeUsers
        /\ storeMessages' =
             IF persisted
             THEN [m \in DOMAIN storeMessages \cup {id} |->
                     IF m = id THEN [text |-> Trim(text), userId |-> u, roomId |-> roomId]
                     ELSE storeMessages[m]]
             ELSE storeMessages
        /\ nextId' = IF persisted THEN nextId + 1 ELSE nextId
        /\ relay' = IF publishedOk THEN Published(relay, "MESSAGES", "json", env)
                    ELSE relay
        /\ out' = [pub |-> IF persisted
                           THEN <<PubCall("MESSAGES", env, publishedOk)>> ELSE <<>>,
                   prod |-> ProduceCalls(stage, env),
                   sends |-> SendAttempts(stage),
                   emit |-> {},
                   res |-> <<[status |-> RestStatus(stage),
                              id |-> IF stage = "done" THEN id ELSE NoId]>>,
                   req |-> <<Request("rest", u, text, roomId, fault)>>,
                   hs |-> <<>>,
                   cb |-> <<>>]
        /\ owed' = IF stage = "done"
                   THEN owed \cup {[id |-> id, to |-> x, room |-> roomId] :
                                     x \in Audience(roomId)}
                   ELSE owed
        /\ reportedFailed' = IF persisted /\ ErrorSurfaced(stage)
                             THEN reportedFailed \cup {id} ELSE reportedFailed
  /\ lastDispatch' = NoDispatch
  /\ UNCHANGED <<procVars, connectPc, retryCount, attempts, waitLeft, producer,
                 consumer, isConnected, consumerRunning, paused, timers,
                 appliedIds, storeRooms, registryVars, roomVars, subPc, subscribed>>
  /\ UNCHANGED pendVars

\* ------------------------------------------- requests, await by await
\* The send flow and deleteRoom run one store call at a time; between two
\* awaits other requests run. Each action below is one store call together
\* with the synchronous code that follows it. The text is valid ("hi") and
\* no call fails by itself: what fails follows from the store's constraints.

\* the call after the author is ensured: the socket handler has resolved the
\* room already, createMessage resolves it now
AfterUser(p) ==
  IF p.origin = "rest" /\ p.roomId # "global" THEN "findRoom" ELSE "createMessage"

\* the reply each flow gives on its error paths
ErrorReply(p, stage) ==
  [NoOut EXCEPT
     !.emit = IF p.origin = "socket"
              THEN Emit({p.s}, "error", Envelope("", SendErrorText(stage), "", "", ""))
              ELSE {},
     !.res = IF p.origin = "rest"
             THEN <<[status |-> IF stage = "roomNotFound" THEN 404 ELSE 500, id |-> NoId]>>
             ELSE <<>>,
     !.req = <<Request(p.origin, p.u, "hi", p.roomId, "none")>>]

\* socket.on('message:send') / POST /api/messages arrive with a valid text
SendBegin(k, origin, s, u, roomArg) ==
  /\ alive
  /\ origin = "socket" => (s \in live /\ sockUser[s] = u)
  /\ origin = "rest" => httpListening
  /\ pendingSends[k].pc = "idle"
  /\ nextId + Cardinality({j \in Slots : pendingSends[j].pc # "idle"}) <= MaxMsgs
  /\ LET roomId == IF roomArg = "" THEN "global" ELSE roomArg
     IN pendingSends' = [pendingSends EXCEPT ![k] =
          [pc |-> IF origin = "socket" /\ roomId # "global" THEN "findRoom" ELSE "findUser",
           origin |-> origin, s |-> s, u |-> u, roomId |-> roomId]]
  /\ out' = NoOut
  /\ lastDispatch' = NoDispatch
  /\ UNCHANGED <<procVars, connectPc, retryCount, attempts, waitLeft, producer,
                 consumer, isConnected, consumerRunning, paused, timers,
                 appliedIds, storeVars, gwState, pendingDelete, reportedFailed>>

\* await prisma.room.findUnique({ where: { id: roomId } })
SendFindRoom(k) ==
  LET p == pendingSends[k] IN
  /\ alive
  /\ p.pc = "findRoom"
  /\ IF RoomFound(p.roomId)
     THEN /\ pendingSends' = [pendingSends EXCEPT ![k].pc =
                IF p.origin = "socket" THEN "findUser" ELSE "createMessage"]
          /\ out' = NoOut
     ELSE /\ pendingSends' = [pendingSends EXCEPT ![k] = NoSend]
          /\ out' = ErrorReply(p, "roomNotFound")
  /\ lastDispatch' = NoDispatch
  /\ UNCHANGED <<procVars, connectPc, retryCount, attempts, waitLeft, producer,
                 consumer, isConnected, consumerRunning, paused, timers,
                 appliedIds, storeVars, gwState, pendingDelete, reportedFailed>>

\* await prisma.user.findUnique({ where: { id } })
SendFindUser(k) ==
  LET p == pendingSends[k] IN
  /\ alive
  /\ p.pc = "findUser"
  /\ pendingSends' = [pendingSends EXCEPT ![k].pc =
        IF UserExists(p.u) THEN AfterUser(p) ELSE "createUser"]
  /\ out' = NoOut
  /\ lastDispatch' = NoDispatch
  /\ UNCHANGED <<procVars, connectPc, retryCount, attempts, waitLeft, producer,
                 consumer, isConnected, consumerRunning, paused, timers,
                 appliedIds, storeVars, gwState, pendingDelete, reportedFailed>>

\* prisma.user.create rejects when the id (PRIMARY KEY) or the email
\* (User_email_key) is taken at the time of the call
CreateRejected(id, email) == ~UserCreateAllowed(id, email)

\* await prisma.user.create({ data: { id, email } }); a rejection is caught
\* by the flow's catch block
SendCreateUser(k) ==
  LET p == pendingSends[k] IN
  /\ alive
  /\ p.pc = "createUser"
  /\ IF CreateRejected(p.u, TokenEmail(p.u))
     THEN /\ pendingSends' = [pendingSends EXCEPT ![k] = NoSend]
          /\ out' = ErrorReply(p, "failedEarly")
          /\ UNCHANGED storeUsers
     ELSE /\ pendingSends' = [pendingSends EXCEPT ![k].pc = AfterUser(p)]
          /\ out' = NoOut
          /\ storeUsers' = UserCreated(p.u, TokenEmail(p.u))
  /\ lastDispatch' = NoDispatch
  /\ UNCHANGED <<procVars, connectPc, retryCount, attempts, waitLeft, producer,
                 consumer, isConnected, consumerRunning, paused, timers,
                 appliedIds, storeMessages, storeRooms, nextId, gwState,
                 pendingDelete, reportedFailed>>

\* the constraints prisma.message.create is checked against: Message has one
\* foreign key, Message_userId_fkey; its roomId references nothing
MessageInsertAllowed(userId, roomId) == userId \in DOMAIN storeUsers

\* await prisma.message.create(...), then RedisClient.publish, produceMessage
\* and the reply: the calls after the insert touch no row of the store and
\* are taken with it
SendCreateMessage(k) ==
  LET p == pendingSends[k]
      id == MsgIdSeq[nextId]
      env == Envelope(id, Trim("hi"), p.u, p.roomId, "")
      inserted == MessageInsertAllowed(p.u, p.roomId)
      stage == IF ~inserted THEN "failedAtCreate"
               ELSE IF producer = "null" \/ ~isConnected THEN "failedBeforeProduce"
               ELSE "done"
  IN
  /\ alive
  /\ p.pc = "createMessage"
  /\ nextId <= MaxMsgs
  /\ Len(relay) < MaxRelay
  /\ pendingSends' = [pendingSends EXCEPT ![k] = NoSend]
  /\ storeMessages' =
       IF inserted
       THEN [m \in DOMAIN storeMessages \cup {id} |->
               IF m = id THEN [text |-> Trim("hi"), userId |-> p.u, roomId |-> p.roomId]
               ELSE storeMessages[m]]
       ELSE storeMessages
  /\ nextId' = IF inserted THEN nextId + 1 ELSE nextId
  /\ relay' = IF inserted THEN Published(relay, "MESSAGES", "json", env) ELSE relay
  /\ out' = IF stage = "done"
            THEN [NoOut EXCEPT
                    !.pub = <<PubCall("MESSAGES", env, TRUE)>>,
                    !.prod = ProduceCalls(stage, env),
                    !.sends = SendAttempts(stage),
                    !.res = IF p.origin = "rest"
                            THEN <<[status |-> 201, id |-> id]>> ELSE <<>>,
                    !.req = <<Request(p.origin, p.u, "hi", p.roomId, "none")>>]
            ELSE [ErrorReply(p, stage) EXCEPT
                    !.pub = IF inserted THEN <<PubCall("MESSAGES", env, TRUE)>> ELSE <<>>,
                    !.prod = ProduceCalls(stage, env),
                    !.sends = SendAttempts(stage)]
  /\ owed' = IF stage = "done"
             THEN owed \cup {[id |-> id, to |-> x, room |-> p.roomId] :
                               x \in Audience(p.roomId)}
             ELSE owed
  /\ reportedFailed' = IF inserted /\ stage # "done"
                       THEN reportedFailed \cup {id} ELSE reportedFailed
  /\ lastDispatch' = NoDispatch
  /\ UNCHANGED <<procVars, connectPc, retryCount, attempts, waitLeft, producer,
                 consumer, isConnected, consumerRunning, paused, timers,
                 appliedIds, storeUsers, storeRooms, registryVars, roomVars,
                 subPc, subscribed, pendingDelete>>

\* DELETE /api/rooms/:id arrives
DeleteBegin(id) ==
  /\ alive /\ httpListening
  /\ pendingDelete.pc = "idle"
  /\ pendingDelete' = [pc |-> "findRoom", id |-> id]
  /\ out' = NoOut
  /\ lastDispatch' = NoDispatch
  /\ UNCHANGED <<procVars, connectPc, retryCount, attempts, waitLeft, producer,
                 consumer, isConnected, consumerRunning, paused, timers,
                 appliedIds, storeVars, gwState, pendingSends, reportedFailed>>

\* await prisma.room.findUnique({ where: { id } }); 404 when there is none
DeleteFindRoom ==
  /\ alive
  /\ pendingDelete.pc = "findRoom"
  /\ IF RoomFound(pendingDelete.id)
     THEN /\ pendingDelete' = [pendingDelete EXCEPT !.pc = "deleteMessages"]
          /\ out' = NoOut
     ELSE /\ pendingDelete' = NoDelete
          /\ out' = [NoOut EXCEPT !.res = <<[status |-> 404, id |-> NoId]>>]
  /\ lastDispatch' = NoDispatch
  /\ UNCHANGED <<procVars, connectPc, retryCount, attempts, waitLeft, producer,
                 consumer, isConnected, consumerRunning, paused, timers,
                 appliedIds, storeVars, gwState, pendingSends, reportedFailed>>

\* await prisma.message.deleteMany({ where: { roomId: id } })
DeleteRoomMessages ==
  /\ alive
  /\ pendingDelete.pc = "deleteMessages"
  /\ storeMessages' = [m \in {x \in DOMAIN storeMessages :
                                 storeMessages[x].roomId # pendingDelete.id} |->
                         storeMessages[m]]
  /\ pendingDelete' = [pendingDelete EXCEPT !.pc = "deleteRoom"]
  /\ out' = NoOut
  /\ lastDispatch' = NoDispatch
  /\ UNCHANGED <<procVars, connectPc, retryCount, attempts, waitLeft, producer,
                 consumer, isConnected, consumerRunning, paused, timers,
                 appliedIds, storeUsers, storeRooms, nextId, gwState, pendingSends, reportedFailed>>

\* await prisma.room.delete({ where: { id } }), then produceMessage
\* ('ROOM_DELETED', ...) and the reply: 500 when the produce throws
DeleteRoomRow ==
  LET id == pendingDelete.id
      produced == producer # "null" /\ isConnected
  IN
  /\ alive
  /\ pendingDelete.pc = "deleteRoom"
  /\ storeRooms' = storeRooms \ {id}
  /\ pendingDelete' = NoDelete
  /\ out' = [NoOut EXCEPT
               !.prod = <<PubCall("ROOM_DELETED", Envelope("", "", "", id, ""), produced)>>,
               !.sends = IF produced THEN 1 ELSE 0,
               !.res = <<[status |-> IF produced THEN 200 ELSE 500, id |-> NoId]>>]
  /\ lastDispatch' = NoDispatch
  /\ UNCHANGED <<procVars, connectPc, retryCount, attempts, waitLeft, producer,
                 consumer, isConnected, consumerRunning, paused, timers,
                 appliedIds, storeMessages, storeUsers, nextId, gwState, pendingSends, reportedFailed>>

\* GET /api/messages/room/:roomId with the default limit and offset, which
\* cover every message of a room this small: the rows of the room, 404 for a
\* room that is neither 'global' nor stored
RoomQuery(messages, storedRooms, roomId) ==
  IF roomId # "global" /\ roomId \notin storedRooms
  THEN [status |-> 404, messages |-> {}]
  ELSE [status |-> 200,
        messages |-> {[id |-> m, text |-> messages[m].text,
                       userId |-> messages[m].userId,
                       roomId |-> messages[m].roomId] :
                        m \in {x \in DOMAIN messages : messages[x].roomId = roomId}}]

\* publications by the REST handlers and by peer instances (updateMessage,
\* deleteMessage, createMessage: RedisClient.publish(channel, JSON.stringify(..)))
PeerPublish(channel, kind, env) ==
  /\ alive
  /\ channel \in subscribed
  /\ Len(relay) < MaxRelay
  /\ relay' = Published(relay, channel, kind, env)
  /\ out' = NoOut
  /\ UNCHANGED <<procVars, busVars, storeVars, registryVars, roomVars, subPc,
                 subscribed, owed>>
  /\ UNCHANGED <<pendVars, reportedFailed>>

\* ------------------------------------------- SocketService: Relay callbacks
EventOf(channel) ==
  CASE channel = "MESSAGES" -> "message:new"
    [] channel = "MESSAGE_UPDATED" -> "message:updated"
    [] channel = "MESSAGE_DELETED" -> "message:deleted"
    [] OTHER -> "user:status"

\* const roomId = messageData.roomId || 'global'
RoomOf(payload) == IF payload.roomId = "" THEN "global" ELSE payload.roomId

\* handleNewMessage / handleUpdatedMessage / handleDeletedMessage emit to the
\* room, handleUserStatus to every socket; a payload JSON.parse rejects is logged
Recipients(m) ==
  IF m.kind = "malformed" THEN {}
  ELSE IF m.channel = "USER_STATUS" THEN live
  ELSE Audience(RoomOf(m.payload))

\* RedisClient.subscribe adds one 'message' listener to the subscriber client
\* per completed subscribe call, in the order of the calls
Listeners == SelectSeq(SubChannels, LAMBDA c : c \in subscribed)

\* the listener's test: if (ch === channel) callback(message)
ListenerRunsAlways(channel, ch) == TRUE
ListenerRuns(channel, ch) == ch = channel

\* the channels whose callback a 'message' event on channel ch runs, in
\* listener order
CallbacksRun(ch) == SelectSeq(Listeners, LAMBDA c : ListenerRuns(c, ch))

\* the subscriber client's 'message' event for the oldest publication in flight
RelayDeliver ==
  /\ alive
  /\ relay # <<>>
  /\ LET m == Head(relay)
         run == CallbacksRun(m.channel)
         to == Recipients(m)
     IN /\ out' = [NoOut EXCEPT
                     !.emit = UNION {Emit(Recipients([m EXCEPT !.channel = run[i]]),
                                          EventOf(run[i]), m.payload) :
                                       i \in 1..Len(run)},
                     !.cb = [i \in 1..Len(run) |->
                               [channel |-> run[i], kind |-> m.kind,
                                payload |-> m.payload]]]
        /\ owed' = IF m.channel = "MESSAGES" /\ m.kind = "json"
                   THEN {o \in owed : ~(o.id = m.payload.id /\ o.to \in to)}
                   ELSE owed
  /\ relay' = Tail(relay)
  /\ UNCHANGED <<procVars, busVars, storeVars, registryVars, roomVars, subPc,
                 subscribed>>
  /\ UNCHANGED <<pendVars, reportedFailed>>

\* ------------------------------------------------------- specifications
Init ==
  /\ alive = TRUE
  /\ httpListening = TRUE
  /\ initPc = "db"
  /\ ioAttached = FALSE
  /\ connectPc = "idle"
  /\ retryCount = 0
  /\ attempts = 0
  /\ waitLeft = 0
  /\ producer = "null"
  /\ consumer = "null"
  /\ isConnected = FALSE
  /\ consumerRunning = FALSE
  /\ paused = {}
  /\ timers = <<>>
  /\ lastDispatch = NoDispatch
  /\ appliedIds = {}
  /\ storeMessages = <<>>
  /\ storeUsers = <<>>
  /\ storeRooms = {"r1"}
  /\ nextId = 1
  /\ live = {}
  /\ sockUser = [s \in Sockets |-> ""]
  /\ connectedUsers = <<>>
  /\ userSockets = <<>>
  /\ rooms = [s \in Sockets |-> {}]
  /\ member = [s \in Sockets |-> {}]
  /\ subPc = 0
  /\ subscribed = {}
  /\ relay = <<>>
  /\ out = NoOut
  /\ owed = {}
  /\ reportedFailed = {}
  /\ pendingSends = [k \in Slots |-> NoSend]
  /\ pendingDelete = NoDelete

StartupNext ==
  \/ \E ok \in BOOLEAN : InitDatabase(ok)
  \/ \E ok \in BOOLEAN : InitRedis(ok)
  \/ \E outcome \in {"ok", "producerFails", "consumerFails"},
        cleanup \in {"ok", "producerThrows", "consumerThrows"} :
       ConnectAttempt(outcome, cleanup)
  \/ BackoffElapsed
  \/ \E ok \in BOOLEAN : StartConsumer(ok)
  \/ \E ok \in BOOLEAN : Shutdown(ok)
  \/ Tick

\* start-up and the consumer with its pause / resume timers
BusNext ==
  \/ StartupNext
  \/ \E topic \in FedTopics, partition \in Partitions :
       \E payload \in BusPayloads(topic) :
         \E fault \in (IF payload.kind = "json" THEN {"none", "find"} ELSE {"none"}) :
           Dispatch(topic, partition, payload, fault)
  \/ TimerFire

\* start-up and the consumer's handlers against a store that other writers change
IngestNext ==
  \/ StartupNext
  \/ \E topic \in FedTopics :
       \E payload \in IngestPayloads(topic), fault \in {"none", "find", "create"} :
         Dispatch(topic, 0, payload, fault)
  \/ \E id \in {"m1", "m2"} : PeerCreateMessage(id, "u1", "global")
  \/ \E id \in {"m1", "m2"} : PeerDeleteMessage(id)

IngestSpec == Init /\ [][IngestNext]_vars

BusSpec == Init /\ [][BusNext]_vars

FairBusSpec ==
  BusSpec /\ WF_vars(Tick) /\ WF_vars(TimerFire) /\ WF_vars(BackoffElapsed)
          /\ WF_vars(\E outcome \in {"ok", "producerFails", "consumerFails"},
                        cleanup \in {"ok", "producerThrows", "consumerThrows"} :
                       ConnectAttempt(outcome, cleanup))

SendFaults == {"none", "roomFind", "userFind", "userCreate", "messageCreate",
               "relay", "bus"}

\* presence: connections come and go while the Relay subscriptions are set up
PresenceNext ==
  \/ \E ok \in BOOLEAN : SubscribeStep(ok)
  \/ \E s \in Sockets, u \in Users, ok \in BOOLEAN : Connect(s, u, ok)
  \/ \E s \in Sockets, ok \in BOOLEAN : Disconnect(s, ok)
  \/ RelayDeliver

Next == StartupNext \/ PresenceNext

Spec == Init /\ [][Next]_vars

\* rooms: one user's connections join and leave rooms while envelopes arrive
RoomNext ==
  \/ \E ok \in BOOLEAN : SubscribeStep(ok)
  \/ \E s \in Sockets : Connect(s, "u1", TRUE)
  \/ \E s \in Sockets : Disconnect(s, TRUE)
  \/ \E s \in Sockets, r \in {"global", "r1", "r9"}, fault \in {"none", "find"} :
       JoinRoom(s, r, fault)
  \/ \E s \in Sockets, r \in RoomIds : LeaveRoom(s, r)
  \/ PeerPublish("MESSAGE_UPDATED", "json", Envelope("m1", "hi", "u1", "r1", ""))
  \/ PeerPublish("MESSAGE_DELETED", "json", Envelope("m1", "", "u1", "", ""))
  \/ PeerPublish("MESSAGES", "malformed", Envelope("", "", "", "", ""))
  \/ PeerPublish("MESSAGES", "json", Envelope("m1", "hi", "u1", "r1", ""))
  \/ RelayDeliver

RoomSpec == Init /\ [][StartupNext \/ RoomNext]_vars

\* message:send payloads <<text, roomId, fault>>: a text to the joined room, to
\* the default room and to a missing room, an empty text, and a failing store
\* or Event-Bus call
SendInputs ==
  {<<"hi", "r1", "none">>, <<"hi", "", "none">>, <<"hi", "r9", "none">>,
   <<"", "r1", "none">>, <<"hi", "r1", "messageCreate">>, <<"hi", "r1", "bus">>}

\* sending: connections join a room and send while the Relay is available
\* (every subscribe and publish succeeds) and delivers
SendNext ==
  \/ SubscribeStep(TRUE)
  \/ \E s \in Sockets, u \in Users : Connect(s, u, TRUE)
  \/ \E s \in Sockets : Disconnect(s, TRUE)
  \/ \E s \in Sockets : JoinRoom(s, "r1", "none")
  \/ \E s \in Sockets : LeaveRoom(s, "r1")
  \/ \E s \in Sockets, in \in SendInputs : Send(s, in[1], in[2], in[3])
  \/ RelayDeliver

SendSpec == Init /\ [][StartupNext \/ SendNext]_vars

FairSendSpec ==
  SendSpec /\ WF_vars(RelayDeliver) /\ WF_vars(SubscribeStep(TRUE))

\* texts at the validation boundaries
FlowTexts == {"", "  ", " x*998 ", "x*1000", " x*999 ", "x*1001"}

\* requests over the socket: every text to the default room, a text to a
\* stored and to an unknown room, and each failing call under a valid request
SocketInputs ==
  {<<text, "", "none">> : text \in FlowTexts}
  \cup {<<"x*1000", r, "none">> : r \in {"r1", "r9"}}
  \cup {<<"x*1000", "r1", fault>> : fault \in SendFaults \ {"none"}}

\* requests over REST: every text to the default room, an unknown room, and
\* each failing call under a valid request
RestInputs ==
  {<<text, "", "none">> : text \in FlowTexts \ {" x*998 "}}
  \cup {<<"x*1000", "r9", fault>> : fault \in {"none", "roomFind"}}
  \cup {<<"x*1000", "", fault>> : fault \in SendFaults \ {"none", "roomFind"}}

\* the send flow from both origins once start-up has completed: one connection
\* of u1 sends over its socket, u2 posts over REST
FlowNext ==
  \/ SubscribeStep(TRUE)
  \/ Connect(1, "u1", TRUE)
  \/ JoinRoom(1, "r1", "none")
  \/ \E in \in SocketInputs : Send(1, in[1], in[2], in[3])
  \/ \E in \in RestInputs : initPc = "ready" /\ RestCreateMessage("u2", in[1], in[2], in[3])
  \/ RelayDeliver

FlowSpec == Init /\ [][StartupNext \/ FlowNext]_vars

\* handshakes <<auth.token, query.token, authorization header>>: no credential,
\* a valid token in each single channel (with and without 'Bearer '), tokens
\* whose verification fails, and a token without a user id
HandshakeInputs ==
  {<<(<<>>), (<<>>), (<<>>)>>,
   <<(<<"jwt-u1">>), (<<>>), (<<>>)>>,
   <<(<<"Bearer", "jwt-u1">>), (<<>>), (<<>>)>>,
   <<(<<>>), (<<"jwt-u2">>), (<<>>)>>,
   <<(<<>>), (<<>>), (<<"Bearer", "jwt-u1">>)>>,
   <<(<<>>), (<<>>), (<<"jwt-u1">>)>>,
   <<(<<"jwt-expired">>), (<<>>), (<<>>)>>,
   <<(<<>>), (<<"jwt-garbled">>), (<<>>)>>,
   <<(<<>>), (<<>>), (<<"Bearer", "jwt-notbefore">>)>>,
   <<(<<"jwt-nouser">>), (<<>>), (<<>>)>>,
   <<(<<"jwt-expired">>), (<<"jwt-u2">>), (<<>>)>>}

\* authentication: handshakes are accepted or refused, accepted ones connect
AuthNext ==
  \/ SubscribeStep(TRUE)
  \/ \E s \in Sockets, h \in HandshakeInputs : Handshake(s, h[1], h[2], h[3])
  \/ \E s \in Sockets : sockUser[s] # "" /\ Connect(s, sockUser[s], TRUE)
  \/ \E s \in Sockets : Disconnect(s, TRUE)
  \/ RelayDeliver

AuthSpec == Init /\ [][StartupNext \/ AuthNext]_vars

\* joining: connections of two users join the default room, a stored room and
\* a room that is not in the store, and leave again
JoinNext ==
  \/ SubscribeStep(TRUE)
  \/ \E s \in Sockets, u \in Users : Connect(s, u, TRUE)
  \/ \E s \in Sockets, r \in {"global", "r1", "r9"}, fault \in {"none", "find"} :
       JoinRoom(s, r, fault)
  \/ \E s \in Sockets, r \in RoomIds : LeaveRoom(s, r)
  \/ RelayDeliver

JoinSpec == Init /\ [][StartupNext \/ JoinNext]_vars

\* the envelopes of the messages this instance persisted, as the consumer
\* receives them back from topic MESSAGES
EchoPayloads ==
  {[kind |-> "json", id |-> m, text |-> storeMessages[m].text,
    userId |-> storeMessages[m].userId, roomId |-> storeMessages[m].roomId,
    email |-> ""] : m \in DOMAIN storeMessages}

\* a member of room r1 sends to its room; each envelope comes back over the
\* Relay subscription and over the Event-Bus consumer
EchoNext ==
  \/ SubscribeStep(TRUE)
  \/ \E s \in {1, 2} : Connect(s, "u1", TRUE)
  \/ \E s \in {1, 2} : JoinRoom(s, "r1", "none")
  \/ Send(1, "hi", "r1", "none")
  \/ \E payload \in EchoPayloads : Dispatch("MESSAGES", 0, payload, "none")
  \/ RelayDeliver

EchoSpec == Init /\ [][StartupNext \/ EchoNext]_vars

\* two sends of u1 (over its socket and over REST) and a deletion of room r1
\* run await by await once start-up has completed
RaceNext ==
  \/ SubscribeStep(TRUE)
  \/ Connect(1, "u1", TRUE)
  \/ \E k \in Slots, roomArg \in {"", "r1"} :
       initPc = "ready" /\ SendBegin(k, "socket", 1, "u1", roomArg)
  \/ \E k \in Slots : initPc = "ready" /\ SendBegin(k, "rest", 0, "u1", "r1")
  \/ \E k \in Slots : SendFindRoom(k)
  \/ \E k \in Slots : SendFindUser(k)
  \/ \E k \in Slots : SendCreateUser(k)
  \/ \E k \in Slots : SendCreateMessage(k)
  \/ initPc = "ready" /\ DeleteBegin("r1")
  \/ DeleteFindRoom
  \/ DeleteRoomMessages
  \/ DeleteRoomRow
  \/ RelayDeliver

RaceSpec == Init /\ [][StartupNext \/ RaceNext]_vars

\* a topic handleMessage has no case for
UnmappedTopic == "NOTIFICATIONS"

\* payloads JSON.parse accepts: one envelope per topic and the literal null
RoutePayloads(topic) == {p \in BusPayloads(topic) : p.kind \in {"json", "jsonNull"}}

\* routing: decodable messages on each subscribed topic and on a topic
\* without a case
RouteNext ==
  \/ StartupNext
  \/ \E topic \in Topics \cup {UnmappedTopic}, partition \in Partitions :
       \E payload \in RoutePayloads(topic) : Dispatch(topic, partition, payload, "none")

RouteSpec == Init /\ [][RouteNext]_vars

\* the topics that carry message, update and deletion envelopes
MessageTopics == {"MESSAGES", "MESSAGE_UPDATED", "MESSAGE_DELETED"}

\* the envelope of a message of room r1 as a peer produced it to the Event-Bus
\* (JSON.stringify of the stored row)
BusEnvelope ==
  [kind |-> "json", id |-> "m1", text |-> "hi", userId |-> "u2",
   roomId |-> "r1", email |-> ""]

\* a member of room r1 is connected while envelopes of that room arrive from
\* the Event-Bus and from the Relay
BridgeNext ==
  \/ SubscribeStep(TRUE)
  \/ \E s \in Sockets : Connect(s, "u1", TRUE)
  \/ \E s \in Sockets : JoinRoom(s, "r1", "none")
  \/ \E topic \in MessageTopics, partition \in Partitions :
       Dispatch(topic, partition, BusEnvelope, "none")
  \/ PeerPublish("MESSAGES", "json", Envelope("m1", "hi", "u2", "r1", ""))
  \/ RelayDeliver

BridgeSpec == Init /\ [][StartupNext \/ BridgeNext]_vars

\* what arrives on the three message topics: envelopes of every shape the
\* validation distinguishes and payloads that are not objects
ConsumePayloads == IngestPayloads("MESSAGES") \cup NonObjectPayloads

\* the consumer receives deliveries on the three message topics while peers
\* create and delete the rows the envelopes name; the author u1 is registered
ConsumeNext ==
  \/ Dispatch("user.registered", 0,
              [kind |-> "json", id |-> "u1", text |-> "", userId |-> "", email |-> "a@x"],
              "none")
  \/ \E topic \in MessageTopics :
       \E payload \in ConsumePayloads, fault \in {"none", "find"} :
         Dispatch(topic, 0, payload, fault)
  \/ \E id \in {"m1", "m2"} : PeerCreateMessage(id, "u1", "global")
  \/ \E id \in {"m1", "m2"} : PeerDeleteMessage(id)
  \/ TimerFire

ConsumeSpec == Init /\ [][StartupNext \/ ConsumeNext]_vars

\* REST traffic from the moment the HTTP server listens, during start-up
RestNext ==
  \/ SubscribeStep(TRUE)
  \/ \E in \in RestInputs : RestCreateMessage("u2", in[1], in[2], in[3])
  \/ RelayDeliver

RestSpec == Init /\ [][StartupNext \/ RestNext]_vars

\* ======================================================================
\* Properties
\* ======================================================================

\* live connections of a user, as socket.io sees them
LiveCount(u) == Cardinality({s \in live : sockUser[s] = u})

\* publish calls of the last step that announce u as offline
OfflineCalls(u) ==
  Cardinality({i \in 1..Len(out.pub) :
                 /\ out.pub[i].channel = "USER_STATUS"
                 /\ out.pub[i].payload.userId = u
                 /\ out.pub[i].payload.status = "offline"})

\* C1: in every reachable state, isUserOnline(user) is true exactly when the
\* user has at least one live connection on the instance.
C1_OnlineIffLiveConnections ==
  \A u \in Users : isUserOnline(u) <=> LiveCount(u) > 0

C1_Witness ==
  \E u \in Users : LiveCount(u) >= 2 /\ isUserOnline(u)

\* C2: a step of the running instance issues one 'offline' publish for a user
\* exactly when it takes that user's live-connection count from above 0 to 0,
\* and none otherwise (so none on a disconnect that leaves connections).
C2_OfflineOncePerReturnToZero ==
  [][alive' =>
      \A u \in Users :
        OfflineCalls(u)' = IF LiveCount(u) > 0 /\ LiveCount(u)' = 0 THEN 1 ELSE 0]_vars

C2_Witness ==
  \E u \in Users : OfflineCalls(u) = 1 /\ LiveCount(u) = 0 /\ live # {}

\* sockets the last step emitted the given event to
EmittedTo(event) == {e.to : e \in {x \in out.emit : x.event = event}}

\* C3: a message sent without a fault in the store, the Relay or the Event-Bus
\* is eventually emitted as message:new to every socket that was in its room
\* when it was sent, unless that socket leaves the room or disconnects first.
C3_SentMessageReachesRoom ==
  \A id \in {MsgIdSeq[i] : i \in 1..(MaxMsgs + 1)}, s \in Sockets, r \in RoomIds :
    ([id |-> id, to |-> s, room |-> r] \in owed)
      ~> ([id |-> id, to |-> s, room |-> r] \notin owed)

\* C4: a Relay delivery of a message envelope emits its event to exactly the
\* live sockets that joined the envelope's room (join:room) and have not left.
C4_RoomScopedDelivery ==
  [][(/\ alive'
      /\ relay # <<>>
      /\ relay' = Tail(relay)
      /\ Head(relay).channel # "USER_STATUS")
     => LET m == Head(relay)
            got == {e.to : e \in {x \in out'.emit :
                                    x.event = EventOf(m.channel) /\ x.payload = m.payload}}
        IN /\ got = IF m.kind = "json"
                    THEN {s \in live : RoomOf(m.payload) \in member[s]} ELSE {}
           /\ \A e \in out'.emit : e.event = EventOf(m.channel) /\ e.payload = m.payload]_vars

C4_Witness ==
  /\ EmittedTo("message:updated") # {}
  /\ live \ EmittedTo("message:updated") # {}

CooldownActive(topic) ==
  \E i \in 1..Len(timers) : timers[i].topic = topic /\ timers[i].remaining > 0

\* C6: no message of a topic is handed to a handler while a cooldown window of
\* that topic is running.
C6_NoDispatchDuringCooldown ==
  [][lastDispatch'.kind = "handled" => ~CooldownActive(lastDispatch'.topic)]_vars

\* C7: every paused topic-partition is eventually resumed while the process runs.
C7_PauseEventuallyResumed ==
  \A topic \in FedTopics, partition \in Partitions :
    (<<topic, partition>> \in paused) ~> (<<topic, partition>> \notin paused \/ ~alive)

C7_Witness ==
  lastDispatch.kind = "resume" /\ \A p \in Partitions : <<lastDispatch.topic, p>> \notin paused

\* C8: a store failure inside the handler of a topic pauses the message's
\* topic-partition.
C8_HandlerFailurePauses ==
  [][lastDispatch'.storeFailed =>
       <<lastDispatch'.topic, lastDispatch'.partition>> \in paused']_vars

\* C9: connect() makes at most maxRetries attempts; it returns connected at its
\* first successful attempt, raises after maxRetries failures with the client
\* not connected, and always ends.
C9_ConnectBounded ==
  /\ [](/\ attempts <= maxRetries
        /\ (alive /\ initPc = "consumer" /\ connectPc = "returned")
             => (isConnected /\ producer = "client" /\ consumer = "client"
                 /\ attempts = retryCount + 1)
        /\ connectPc = "thrown"
             => (attempts = maxRetries /\ retryCount = maxRetries /\ ~isConnected))
  /\ (connectPc \in {"attempting", "waiting"})
       ~> (connectPc \in {"returned", "thrown"} \/ ~alive)

C9_Witness == connectPc = "thrown" /\ attempts = maxRetries

\* C10: a socket is accepted only while the Event-Bus client is connected and
\* its consumer started; once the retry budget is exhausted the process is
\* gone and no socket is accepted any more.
C10_AcceptOnlyWithBus ==
  /\ [][\A s \in Sockets :
          (s \notin live /\ s \in live') => (isConnected /\ consumerRunning)]_vars
  /\ [](live # {} => (isConnected /\ consumerRunning))
  /\ [](connectPc = "thrown" => (~alive /\ ~ioAttached /\ live = {}))
  /\ [][~alive => (~alive' /\ live' = {})]_vars

C10_Witness == live # {} /\ isConnected /\ consumerRunning

\* the last step served a REST request
RestServed == out.res # <<>>

\* C11: every REST request is served with the Event-Bus client connected.
C11_NoRestWithoutBus ==
  [][RestServed' => isConnected]_vars

\* the last step's Relay publish of a message envelope failed
RelayPublishFailed ==
  out.pub # <<>> /\ out.pub[1].channel = "MESSAGES" /\ ~out.pub[1].ok

\* the last step told its requester of an error
ErrorToRequester ==
  \/ \E e \in out.emit : e.event = "error"
  \/ out.res # <<>> /\ out.res[1].status >= 400

\* C12: a send-flow step whose Relay publish fails reports no error to its
\* requester and still produces the same envelope to the Event-Bus.
C12_RelayFailureSwallowed ==
  [][RelayPublishFailed' =>
       (/\ ~ErrorToRequester'
        /\ out'.prod # <<>>
        /\ out'.prod[1].payload = out'.pub[1].payload)]_vars

\* C13: a send-flow step whose Relay publish fails still hands message:new for
\* the envelope to every connection of the instance in the message's room,
\* by emitting it or by queueing it for the subscriber callback.
C13_LocalDeliveryOnRelayFailure ==
  [][RelayPublishFailed' =>
       LET env == out'.pub[1].payload
       IN \A s \in Audience(env.roomId) :
            \/ [to |-> s, event |-> "message:new", payload |-> env] \in out'.emit
            \/ \E i \in 1..Len(relay') :
                 relay'[i].channel = "MESSAGES" /\ relay'[i].payload = env]_vars

\* the last step's Event-Bus produce failed
ProduceFailed == out.prod # <<>> /\ ~out.prod[1].ok

\* C14: a send-flow step whose Event-Bus produce fails reports an error to its
\* requester (error event or status 500) and leaves the persisted message in
\* the store.
C14_ProduceFailureSurfaced ==
  [][ProduceFailed' =>
       LET env == out'.prod[1].payload
       IN /\ \/ (out'.req[1].origin = "socket"
                   /\ \E e \in out'.emit : e.event = "error")
             \/ (out'.req[1].origin = "rest"
                   /\ out'.res # <<>> /\ out'.res[1].status = 500)
          /\ env.id \in DOMAIN storeMessages'
          /\ storeMessages'[env.id] =
               [text |-> env.text, userId |-> env.userId, roomId |-> env.roomId]]_vars

C14_Witness ==
  /\ ProduceFailed
  /\ out.req[1].origin = "socket"
  /\ \E e \in out.emit : e.event = "error" /\ e.to = 1
  /\ out.prod[1].payload.id \in DOMAIN storeMessages

\* C15: every step that persists a message through the send flow publishes
\* its envelope (identifier, text, author and room of the stored row) to Relay
\* channel MESSAGES and produces the same envelope to Event-Bus topic MESSAGES.
C15_BothFanOutsForBothOrigins ==
  [][nextId' # nextId =>
       LET id == MsgIdSeq[nextId]
           row == storeMessages'[id]
           env == Envelope(id, row.text, row.userId, row.roomId, "")
       IN /\ out'.pub # <<>>
          /\ out'.pub[1].channel = "MESSAGES" /\ out'.pub[1].payload = env
          /\ out'.prod # <<>>
          /\ out'.prod[1].channel = "MESSAGES" /\ out'.prod[1].payload = env]_vars

\* the text is empty or white space only
Blank(text) == text = "" \/ TextLen(Trim(text)) = 0

\* the last step rejected its request with a validation error
ValidationError ==
  \/ \E e \in out.emit :
       /\ e.event = "error"
       /\ e.payload.text \in {"Message text is required",
                              "Message too long (max 1000 characters)"}
  \/ out.res # <<>> /\ out.res[1].status = 400

\* C16: a send with blank text or with more than 1000 characters is rejected
\* with a validation error and persists and publishes nothing; a send with
\* non-blank text of at most 1000 characters is not rejected by validation
\* and, when its room exists and no call fails, is persisted.
C16_TextLengthBoundary ==
  [][\A i \in 1..Len(out'.req) :
       LET r == out'.req[i]
           valid == ~Blank(r.text) /\ TextLen(r.text) <= 1000
       IN /\ ~valid =>
               (/\ ValidationError'
                /\ storeMessages' = storeMessages /\ storeUsers' = storeUsers
                /\ nextId' = nextId /\ relay' = relay
                /\ out'.pub = <<>> /\ out'.prod = <<>>)
          /\ valid => ~ValidationError'
          /\ (valid /\ r.fault = "none" /\ (r.roomId = "global" \/ r.roomId \in storeRooms)) =>
               (/\ nextId' = nextId + 1
                /\ MsgIdSeq[nextId] \in DOMAIN storeMessages'
                /\ storeMessages'[MsgIdSeq[nextId]].text = Trim(r.text))]_vars

C16_Witness ==
  /\ out.req # <<>> /\ TextLen(out.req[1].text) = 1000
  /\ out.pub # <<>>
  /\ TextLen(storeMessages[out.pub[1].payload.id].text) = 1000

\* C17: a message persisted by message:send is returned by the room query of
\* its room with the text as sent, the sender as author and the room targeted.
C17_RealtimeRoundTrip ==
  [][\A i \in 1..Len(out'.req) :
       LET r == out'.req[i]
       IN (r.origin = "socket" /\ nextId' # nextId) =>
            \E row \in RoomQuery(storeMessages', storeRooms', r.roomId).messages :
              /\ row.id = MsgIdSeq[nextId]
              /\ row.text = r.text
              /\ row.userId = r.userId
              /\ row.roomId = r.roomId]_vars

\* C18: publications reach the subscriber callback in publish order: a
\* successful publish to a subscribed channel appends its envelope behind the
\* publications in flight, a delivery emits the oldest publication in flight
\* and removes it, and no other step of the running instance changes the
\* queue; so message:new events of a room are emitted in publish order.
C18_PublishOrderPreserved ==
  [][alive' =>
       \/ relay' = relay /\ \A e \in out'.emit : e.event # "message:new"
       \/ /\ out'.pub # <<>> /\ out'.pub[1].ok
          /\ relay' = Append(relay, [channel |-> out'.pub[1].channel, kind |-> "json",
                                      payload |-> out'.pub[1].payload])
          /\ \A e \in out'.emit : e.event # "message:new"
       \/ /\ relay # <<>>
          /\ relay' = Tail(relay)
          /\ \A e \in out'.emit :
               e.event = EventOf(Head(relay).channel) /\ e.payload = Head(relay).payload]_vars

C18_Witness ==
  /\ EmittedTo("message:new") # {}
  /\ relay # <<>> /\ Head(relay).channel = "MESSAGES"

\* C19: every live connection that has joined no room by join:room is in the
\* audience of broadcasts scoped to the default room 'global', the room
\* handleNewMessage emits to for an envelope without roomId.
C19_AutoJoinedDefaultRoom ==
  \A s \in live : member[s] = {} => s \in Audience(RoomOf(Envelope("", "", "", "", "")))

\* publish calls of the last step that announce u as online
OnlineCalls(u) ==
  Cardinality({i \in 1..Len(out.pub) :
                 /\ out.pub[i].channel = "USER_STATUS"
                 /\ out.pub[i].payload.userId = u
                 /\ out.pub[i].payload.status = "online"})

\* C20: a step issues an 'online' publish for a user only when it raises that
\* user's live-connection count from 0 to 1.
C20_OnlineOnlyOnFirstConnection ==
  [][\A u \in Users :
       OnlineCalls(u)' > 0 => (LiveCount(u) = 0 /\ LiveCount(u)' = 1)]_vars

\* room identifiers a client may name: the default room, a stored room and a
\* room that is not in the store
NamedRooms == {"global", "r1", "r9"}

NotFoundTo(s) ==
  [to |-> s, event |-> "error", payload |-> Envelope("", "Room not found", "", "", "")]

\* C21: join:room for a room that is neither the default room nor in the store
\* emits the error 'Room not found' to the caller and nothing else, leaves the
\* socket.io rooms and the membership of every connection as they were, and so
\* notifies nobody with user:joined.
C21_JoinUnknownRoomNotFound ==
  [][\A s \in Sockets, r \in NamedRooms :
       (r # "global" /\ r \notin storeRooms /\ JoinRoom(s, r, "none"))
         => /\ out'.emit = {NotFoundTo(s)}
            /\ rooms' = rooms
            /\ member' = member
            /\ r \notin member'[s]
            /\ RoomName(r) \notin rooms'[s]
            /\ EmittedTo("user:joined")' = {}]_vars

C21_Witness ==
  \E s \in live : /\ NotFoundTo(s) \in out.emit
                  /\ \E x \in live \ {s} : member[x] # {}

\* the last step reported NotFound to its requester
NotFoundReported ==
  \/ \E e \in out.emit : e.event = "error" /\ e.payload.text = "Room not found"
  \/ out.res # <<>> /\ out.res[1].status = 404

\* C22: from either origin, a send with a valid text to a room that is neither
\* the default room nor in the store is reported as NotFound and changes
\* nothing: no Message row, no author row, no Relay publish, no Event-Bus
\* produce.
C22_SendToUnknownRoomChangesNothing ==
  [][\A i \in 1..Len(out'.req) :
       LET r == out'.req[i]
       IN (/\ r.origin \in {"socket", "rest"}
           /\ ~Blank(r.text) /\ TextLen(r.text) <= 1000
           /\ r.roomId # "global" /\ r.roomId \notin storeRooms
           /\ r.fault = "none")
          => (/\ NotFoundReported'
              /\ storeMessages' = storeMessages
              /\ storeUsers' = storeUsers
              /\ nextId' = nextId
              /\ relay' = relay
              /\ out'.pub = <<>> /\ out'.prod = <<>> /\ out'.sends = 0)]_vars

\* C23: a handshake with no credential in any channel is refused with
\* 'Authentication required'; a handshake whose token verification throws is
\* refused with a reason fixed by the kind of failure, different for an
\* expired token, a malformed token and any other failure; a refused
\* handshake leaves the registry as it was, publishes no presence and never
\* leads to a connection: only a socket with an accepted handshake connects.
C23_RejectedHandshake ==
  /\ [][\A i \in 1..Len(out'.hs) :
          LET h == out'.hs[i]
          IN /\ (h.auth = <<>> /\ h.query = <<>> /\ h.header = <<>>)
                  => (/\ ~h.ok
                      /\ h.reason = "Authentication required - no token provided")
             /\ h.error # "" =>
                  (/\ ~h.ok
                   /\ h.reason # "Authentication required - no token provided"
                   /\ (h.reason = "Token expired - please login again")
                        <=> (h.error = "TokenExpiredError")
                   /\ (h.reason = "Invalid token format")
                        <=> (h.error = "JsonWebTokenError")
                   /\ (h.reason = "Authentication failed")
                        <=> (h.error \notin {"TokenExpiredError", "JsonWebTokenError"}))
             /\ ~h.ok =>
                  (/\ live' = live
                   /\ connectedUsers' = connectedUsers
                   /\ userSockets' = userSockets
                   /\ sockUser'[h.socket] = ""
                   /\ out'.pub = <<>>
                   /\ relay' = relay)]_vars
  /\ [][\A s \in Sockets : (s \in live' /\ s \notin live) => sockUser[s] # ""]_vars

C23_Witness ==
  /\ out.hs # <<>> /\ out.hs[1].error = "NotBeforeError" /\ ~out.hs[1].ok
  /\ out.hs[1].socket \notin live
  /\ live # {}

\* C24: a handshake that carries the valid token of a user in exactly one of
\* the three channels (in the authorization header with or without the prefix
\* 'Bearer ') is accepted as that user.
C24_AnyChannelAuthenticates ==
  \A i \in 1..Len(out.hs) :
    LET h == out.hs[i]
    IN \A u \in Users :
         (\/ (h.auth = <<TokenOf(u)>> /\ h.query = <<>> /\ h.header = <<>>)
          \/ (h.auth = <<>> /\ h.query = <<TokenOf(u)>> /\ h.header = <<>>)
          \/ (h.auth = <<>> /\ h.query = <<>> /\ h.header = <<"Bearer", TokenOf(u)>>)
          \/ (h.auth = <<>> /\ h.query = <<>> /\ h.header = <<TokenOf(u)>>))
           => (h.ok /\ h.userId = u)

\* C26: a publication arriving on a subscribed channel runs the callback
\* registered for that channel exactly once, with the payload as published,
\* and no other callback; callbacks run for the oldest publication in flight
\* first, so in arrival order; no callback runs without an arrival.
C26_OneCallbackPerArrival ==
  /\ [][(alive' /\ relay # <<>> /\ relay' = Tail(relay))
          => out'.cb = <<[channel |-> Head(relay).channel,
                          kind |-> Head(relay).kind,
                          payload |-> Head(relay).payload]>>]_vars
  /\ [][out'.cb # <<>> => (relay # <<>> /\ relay' = Tail(relay))]_vars
  /\ [](\A i \in 1..Len(relay) : relay[i].channel \in subscribed)

C26_Witness ==
  /\ out.cb # <<>> /\ out.cb[1].channel = "MESSAGE_DELETED"
  /\ relay # <<>> /\ Head(relay).channel = "USER_STATUS"
  /\ Cardinality(subscribed) = 4

\* C25: when the consumer hands a decodable envelope of topic MESSAGES,
\* MESSAGE_UPDATED or MESSAGE_DELETED to its handler, the event of that topic
\* is emitted to every live connection in the envelope's room, as a Relay
\* delivery of the same envelope does.
C25_BusDeliveryRebroadcast ==
  [][(lastDispatch'.kind = "handled" /\ lastDispatch'.topic \in MessageTopics)
       => \A s \in Audience(RoomOf(BusEnvelope)) :
            \E e \in out'.emit : e.to = s /\ e.event = EventOf(lastDispatch'.topic)]_vars

\* C27: a produceMessage call made while the producer is missing or the client
\* is not connected calls producer.send not at all and fails; a call made
\* while connected calls producer.send exactly once, whether the send succeeds
\* or is rejected; every failed call reaches the requester as an error; so a
\* payload is handed to the broker only while the client is connected.
C27_ProduceOnlyWhenConnected ==
  /\ [][out'.prod # <<>> =>
          (/\ Len(out'.prod) = 1
           /\ (producer = "null" \/ ~isConnected)
                => (out'.sends = 0 /\ ~out'.prod[1].ok)
           /\ (producer # "null" /\ isConnected) => out'.sends = 1
           /\ ~out'.prod[1].ok => ErrorToRequester')]_vars
  /\ [][out'.sends > 0 => (out'.prod # <<>> /\ isConnected /\ isConnected')]_vars

C27_Witness ==
  /\ out.prod # <<>> /\ ~out.prod[1].ok /\ out.sends = 1 /\ isConnected
  /\ out.res # <<>> /\ out.res[1].status = 500

\* C28: a consumed message that decodes is handed to exactly one handler, the
\* one of its topic, when the topic is one of the eight subscribed topics; on
\* any other topic no handler runs, store, paused partitions and resume
\* timers stay as they were.
C28_RoutedToOneHandler ==
  [][lastDispatch'.kind = "handled" =>
       LET t == lastDispatch'.topic
       IN /\ t \in Topics =>
               (/\ Len(lastDispatch'.handlers) = 1
                /\ lastDispatch'.handlers[1] = HandlerOf(t)
                /\ \A u \in Topics \ {t} : HandlerOf(u) # lastDispatch'.handlers[1])
          /\ t \notin Topics =>
               (/\ lastDispatch'.handlers = <<>>
                /\ storeMessages' = storeMessages /\ storeUsers' = storeUsers
                /\ storeRooms' = storeRooms /\ nextId' = nextId
                /\ paused' = paused /\ timers' = timers)]_vars

C28_Witness ==
  /\ lastDispatch.kind = "handled" /\ lastDispatch.topic = "ROOM_UPDATED"
  /\ lastDispatch.handlers = <<"handleRoomUpdated">>
  /\ storeUsers # <<>>

\* C29: the wait that connect() starts after its k-th consecutive failure,
\* k = 1..9, lasts min(1000 * 2^(k-1), 30000) ms, at least as long as the wait
\* before it and at most 30000 ms; the 10th failure starts no wait; the client
\* is not connected while a wait is running.
C29_BackoffSchedule ==
  /\ [][(connectPc = "attempting" /\ connectPc' = "waiting") =>
          LET k == retryCount'
          IN /\ k = retryCount + 1
             /\ k \in 1..9
             /\ waitLeft' = Min({1000 * 2^(k - 1), 30000})
             /\ waitLeft' <= 30000
             /\ k > 1 => waitLeft' >= Min({1000 * 2^(k - 2), 30000})]_vars
  /\ [][(connectPc = "attempting" /\ retryCount' = 10) => connectPc' # "waiting"]_vars
  /\ [](connectPc = "waiting" => (~isConnected /\ waitLeft <= 30000))

C29_Witness ==
  connectPc = "waiting" /\ retryCount = 9 /\ waitLeft = 30000 /\ ~isConnected

\* C30: a consumed message whose payload JSON.parse rejects reaches no
\* handler and changes nothing in the store; its topic-partition is paused and
\* a resume timer of 30000 ms for its topic is armed; the callback returns
\* without throwing; and the pause is lifted again while the process runs.
C30_UndecodablePayload ==
  /\ [][lastDispatch'.kind = "decodeError" =>
          (/\ lastDispatch'.handler = "none"
           /\ lastDispatch'.handlers = <<>>
           /\ storeMessages' = storeMessages /\ storeUsers' = storeUsers
           /\ <<lastDispatch'.topic, lastDispatch'.partition>> \in paused'
           /\ timers' = Append(timers, [topic |-> lastDispatch'.topic,
                                        remaining |-> 30000])
           /\ ~lastDispatch'.thrown)]_vars
  /\ \A topic \in FedTopics, partition \in Partitions :
       (/\ lastDispatch.kind = "decodeError"
        /\ lastDispatch.topic = topic /\ lastDispatch.partition = partition)
         ~> (<<topic, partition>> \notin paused \/ ~alive)

C30_Witness ==
  /\ lastDispatch.kind = "decodeError"
  /\ <<lastDispatch.topic, lastDispatch.partition>> \in paused
  /\ Len(timers) = 2 /\ timers[1].remaining = 0

MembersOf(r) == {x \in live : r \in member[x]}

\* the notification a join or leave of connection s sends about room r
Notice(x, event, s, r) ==
  [to |-> x, event |-> event, payload |-> Envelope("", "", sockUser[s], r, "")]

\* C32: a join:room that succeeds puts the connection into the room and emits
\* user:joined, naming the joining user and the room, to exactly the other
\* members of the room; leave:room takes the connection out of the room and
\* emits user:left to exactly the members that remain; the acting connection
\* is never among the recipients.
C32_JoinLeaveNotifications ==
  [][\A s \in Sockets, r \in RoomIds :
       /\ ((r = "global" \/ r \in storeRooms) /\ JoinRoom(s, r, "none")) =>
            (/\ r \in member'[s]
             /\ RoomName(r) \in rooms'[s]
             /\ s \in Audience(r)'
             /\ out'.emit = {Notice(x, "user:joined", s, r) : x \in MembersOf(r) \ {s}}
             /\ \A e \in out'.emit : e.to # s)
       /\ LeaveRoom(s, r) =>
            (/\ r \notin member'[s]
             /\ RoomName(r) \notin rooms'[s]
             /\ s \notin Audience(r)'
             /\ out'.emit = {Notice(x, "user:left", s, r) : x \in MembersOf(r)'}
             /\ \A e \in out'.emit : e.to # s)]_vars

C32_Witness ==
  /\ \E e \in out.emit : e.event = "user:left"
  /\ \E s \in live : member[s] = {} /\ \A e \in out.emit : e.to # s /\ e.payload.userId = sockUser[s]

\* positions of the Relay queue that hold the envelope of message id
InFlight(queue, id) ==
  {i \in 1..Len(queue) : queue[i].channel = "MESSAGES" /\ queue[i].kind = "json"
                            /\ queue[i].payload.id = id}

\* message ids for which the last step emitted message:new
NewEmittedIds == {e.payload.id : e \in {x \in out.emit : x.event = "message:new"}}

\* C33: a sent message is emitted as message:new at most once to each
\* connection: its envelope enters the Relay queue only in the step that
\* persists it under a fresh identifier and is never in the queue twice;
\* message:new for it is emitted only by the delivery that takes it out of
\* the queue, once per recipient; and the consumer's handling of the same
\* envelope from the Event-Bus emits nothing.
C33_AtMostOneEmission ==
  /\ [](\A i \in 1..Len(MsgIdSeq) : Cardinality(InFlight(relay, MsgIdSeq[i])) <= 1)
  /\ [][\A i \in 1..Len(MsgIdSeq) :
          (InFlight(relay', MsgIdSeq[i]) # {} /\ InFlight(relay, MsgIdSeq[i]) = {})
            => (i = nextId /\ nextId' = nextId + 1
                /\ MsgIdSeq[i] \notin DOMAIN storeMessages)]_vars
  /\ [][\A id \in NewEmittedIds' :
          /\ InFlight(relay, id) = {1}
          /\ relay' = Tail(relay)
          /\ \A s \in Sockets :
               Cardinality({e \in out'.emit : e.to = s /\ e.event = "message:new"}) <= 1]_vars
  /\ [][\A payload \in EchoPayloads :
          Dispatch("MESSAGES", 0, payload, "none")
            => {e \in out'.emit : e.event = "message:new"} = {}]_vars

C33_Witness ==
  /\ lastDispatch.kind = "handled" /\ lastDispatch.id = "m1"
  /\ "m1" \in DOMAIN storeMessages
  /\ InFlight(relay, "m1") = {} /\ owed = {}
  /\ "MESSAGES" \in subscribed
  /\ 1 \in Audience("r1") /\ 2 \in Audience("r1")

\* C34: in every reachable state of the connection registry no user is mapped
\* to an empty set of connections, a user has an entry exactly when it has a
\* live connection, connection s is in connectedUsers[u] exactly when
\* userSockets[s] = u, and no connection is in the sets of two users.
C34_RegistryConsistent ==
  /\ \A u \in DOMAIN connectedUsers : connectedUsers[u] # {}
  /\ \A u \in Users :
       u \in DOMAIN connectedUsers <=> \E s \in live : sockUser[s] = u
  /\ \A s \in Sockets, u \in Users :
       (u \in DOMAIN connectedUsers /\ s \in connectedUsers[u])
         <=> (s \in DOMAIN userSockets /\ userSockets[s] = u)
  /\ \A u \in DOMAIN connectedUsers, v \in DOMAIN connectedUsers :
       u # v => connectedUsers[u] \cap connectedUsers[v] = {}
  /\ DOMAIN connectedUsers \subseteq Users
  /\ DOMAIN userSockets \subseteq Sockets

C34_Witness ==
  /\ DOMAIN connectedUsers = Users
  /\ DOMAIN userSockets = Sockets
  /\ \E s \in Sockets, t \in Sockets : s # t /\ userSockets[s] # userSockets[t]

\* C35: no step emits message:new for a message whose send the flow has
\* answered with an error (error event or REST status 500): a send is never
\* both reported as failed to its sender and delivered to a connection.
C35_FailedSendNotDelivered ==
  \A id \in NewEmittedIds : id \notin reportedFailed

\* C36: in every reachable state, also while a send and a deletion of the
\* room interleave, each persisted Message has roomId 'global' or the id of a
\* Room that is in the store.
C36_MessageRoomExists ==
  \A m \in DOMAIN storeMessages :
    storeMessages[m].roomId = "global" \/ storeMessages[m].roomId \in storeRooms

\* C37: a send-flow call that found no record of its author and goes on to
\* create it gets no error and leaves the author's record in the store, also
\* when another send of the same author runs between its two calls.
C37_LazyAuthorCreatedOnce ==
  [][\A k \in Slots :
       SendCreateUser(k)
         => (/\ ~ErrorToRequester'
             /\ UserExists(pendingSends[k].u)'
             /\ pendingSends'[k].pc # "idle")]_vars

\* C38: whenever a connection is live on the running instance, the gateway is
\* subscribed to all four Relay channels.
C38_ConnectedImpliesSubscribed ==
  (alive /\ live # {})
    => subscribed = {SubChannels[i] : i \in 1..Len(SubChannels)}

====
